---- MODULE Spec2Model ----
(***************************************************************************)
(* Event processor of hub-nfts-solana (consumer/src/events.rs): the        *)
(* assemble -> sign -> submit lifecycle over the intent topic and the      *)
(* signed topic, with the persistence facade (core/src) and the parts of   *)
(* the Solana backend (consumer/src/solana.rs) the processor calls.        *)
(*                                                                         *)
(* One action handles one bus message from start to end.  producer.send    *)
(* appends to the outbound log `out` of the message being handled.         *)
(*                                                                         *)
(* Further specifications: SpecBuilders applies each transaction builder   *)
(* to sample inputs, SpecRedelivery adds the redelivery of an intent, and  *)
(* SpecIndexer is the indexer (indexer/src/handler.rs) with its tasks      *)
(* interleaved at their awaits.                                            *)
(* SpecIndexerFeed is the indexer under a feed with transactions of        *)
(* several instructions and with redelivery.  SpecImport is the importer   *)
(* (consumer/src/import.rs), one action per part of process_import, and    *)
(* SpecImportFair is SpecImport with the import in progress always         *)
(* continued.                                                              *)
(***************************************************************************)
EXTENDS Integers, Sequences, FiniteSets, TLC

VARIABLES
    collections,        \* table collections:        id -> row
    collection_mints,   \* table collection_mints:   id -> row
    compression_leafs,  \* table compression_leafs:  id -> row
    update_revisions,   \* table update_revisions:   id -> row
    nextKey,            \* number of Keypair::new() calls made so far
    handled,            \* number of bus messages handled so far
    msg,                \* the message handled last
    env,                \* what the RPC node and the database did for it
    out,                \* events sent to the producer while handling msg
    trace,              \* what the handler did: assembly result, RPC calls, rows read
    built,              \* the builder called last and its result (SpecBuilders)
    geyser,             \* the chain as the gRPC feed has reported it (SpecIndexer)
    dashmap,            \* MessageHandler.dashmap: slot -> transactions received
    tasks,              \* the process_transaction tasks spawned, in spawn order
    produced,           \* UpdateMintOwner events the indexer has sent
    importer,           \* process_import: its position and its locals (SpecImport)
    signing             \* signing requests the treasury has not answered (SpecSigning)

vars == <<collections, collection_mints, compression_leafs, update_revisions,
          nextKey, handled, msg, env, out, trace, built,
          geyser, dashmap, tasks, produced, importer, signing>>
indexerVars == <<geyser, dashmap, tasks, produced>>

----------------------------------------------------------------------------
(* Bounds *)

MaxMsgs == 4
MaxKeys == 2        \* keypairs generated before a builder runs (SpecBuilders)
MaxBlockhash == 2   \* latest blockhashes a builder may see (SpecBuilders)
MaxFailures == 1    \* consecutive failures of an RPC read that a retry outlasts

----------------------------------------------------------------------------
(* Identifiers and addresses *)

\* Strings that parse as a UUID, and one that does not.
Ids == {1, 2}
BadUuid == 0
KeyIds == Ids \cup {BadUuid}

ParseUuidOk(s) == s \in Ids

\* A base58 address: a wallet, a generated keypair or an address derived from
\* others (t names the derivation, n and o the seeds).
Addr(t, n, o) == [t |-> t, n |-> n, o |-> o]

Payer      == Addr("wallet", 0, 0)   \* solana_treasury_wallet_address
WalletA    == Addr("wallet", 1, 0)
WalletB    == Addr("wallet", 2, 0)
BadAddress == Addr("invalid", 0, 0)  \* a string that is not a public key
MerkleTree    == Addr("tree", 0, 0)       \* bubblegum_merkle_tree
TreeAuthority == Addr("treeauth", 0, 0)   \* bubblegum_tree_authority

ParsePubkeyOk(s) == s.t # "invalid"

KeypairNew(n) == Addr("key", n, 0)
FindMetadata(mint) == Addr("metadata", mint.n, 0)
FindMasterEdition(mint) == Addr("edition", mint.n, 0)
GetAssociatedTokenAddress(owner, mint) == Addr("ata", mint.n, owner.n)
GetAssetId(tree, nonce) == Addr("asset", nonce, tree.n)

Some(x) == <<x>>
None == << >>
IsSome(o) == Len(o) = 1
Unwrap(o) == o[1]

----------------------------------------------------------------------------
(* Event kinds *)

CreateKinds == {"CreateEditionDrop", "CreateCollection", "CreateOpenDrop"}
RetryCreateKinds == {"RetryCreateEditionDrop", "RetryCreateCollection", "RetryCreateOpenDrop"}
UpdateKinds == {"UpdateEditionDrop", "UpdateCollection", "UpdateOpenDrop"}
MintToKinds == {"MintToCollection", "MintOpenDrop"}
RetryMintToKinds == {"RetryMintToCollection", "RetryMintOpenDrop"}

EventKind ==
    CreateKinds \cup RetryCreateKinds \cup UpdateKinds \cup MintToKinds
    \cup RetryMintToKinds
    \cup {"MintEditionDrop", "RetryMintEditionDrop", "TransferAsset",
          "UpdateCollectionMint", "RetryUpdateCollectionMint", "SwitchMintCollection"}

----------------------------------------------------------------------------
(* Persistence facade *)

Db == [collections |-> collections, collection_mints |-> collection_mints,
       compression_leafs |-> compression_leafs, update_revisions |-> update_revisions]

EmptyTable == [i \in {} |-> 0]

\* find_by_id: Some(row) or None
FindById(table, id) == IF id \in DOMAIN table THEN Some(table[id]) ELSE None

\* insert: fails on a duplicate primary key
InsertOk(table, id) == id \notin DOMAIN table
Put(table, id, row) == [i \in DOMAIN table \cup {id} |-> IF i = id THEN row ELSE table[i]]

\* The database during one message: up, read-only (writes fail) or down.
ReadOk(e) == e.db # "down"
WriteOk(e) == e.db = "up"

\* CollectionMint::find_by_id_with_collection: inner join on collection_id
FindByIdWithCollection(db, id) ==
    IF id \in DOMAIN db.collection_mints
       /\ db.collection_mints[id].collection_id \in DOMAIN db.collections
    THEN Some(<<db.collection_mints[id],
                Some(db.collections[db.collection_mints[id].collection_id])>>)
    ELSE None

----------------------------------------------------------------------------
(* Assembly backends (consumer/src/solana.rs): what the processor uses of a  *)
(* builder is whether it fails, how many keypairs it generates, the pending  *)
(* transaction and the address bag.                                          *)

\* The keys of a sequence, each once, in the order of first appearance.
RECURSIVE Dedup(_)
Dedup(seq) ==
    IF seq = << >> THEN << >>
    ELSE LET init == Dedup(SubSeq(seq, 1, Len(seq) - 1))
             last == seq[Len(seq)]
         IN  IF \E i \in 1..Len(init) : init[i] = last THEN init ELSE Append(init, last)

\* Message::new_with_blockhash(instructions, Some(payer), blockhash): the
\* account keys start with the payer, then the other signers of the
\* instructions, then the accounts that do not sign; a key appears once, and
\* the header counts the keys that sign.
Message(op, payer, signers, others, blockhash) ==
    [op |-> op,
     num_required_signatures |-> Len(Dedup(<<payer>> \o signers)),
     account_keys |-> Dedup(<<payer>> \o signers \o others),
     recent_blockhash |-> blockhash]
NoMessage ==
    [op |-> "none", num_required_signatures |-> 0, account_keys |-> << >>, recent_blockhash |-> 0]
Sign(keypair, message) == Addr("signature", keypair.n, 0)

Pending(message, signers) ==
    [serialized_message |-> message, signatures_or_signers_public_keys |-> signers]
NoTx == Pending(NoMessage, << >>)

\* A builder's result: the backend method that ran, ok, the keypairs it
\* generated (also when it failed after generating one), the transaction,
\* the address bag and the calls it made to the asset API.
BuildErr(backend, keys) ==
    [backend |-> backend, ok |-> FALSE, keys |-> keys, tx |-> NoTx, addresses |-> << >>,
     client_error |-> FALSE, asset_api |-> << >>]
BuildOk(backend, keys, tx, addresses) ==
    [backend |-> backend, ok |-> TRUE, keys |-> keys, tx |-> tx, addresses |-> addresses,
     client_error |-> FALSE, asset_api |-> << >>]
\* the builder failed with the ClientError of an RPC read
ClientErr(backend, keys) == [BuildErr(backend, keys) EXCEPT !.client_error = TRUE]

\* call_with_retry!: with_max_times of the backoff
MaxTimes == 15

\* call_with_retry!(rpc.get_latest_blockhash()): the read is repeated after a
\* failure, up to MaxTimes times; e.failures is the number of consecutive
\* failures before the endpoint answers, and the endpoint never answers when
\* it is not up.
call_with_retry(e) == e.rpc_up /\ e.failures <= MaxTimes

\* rpc_client.get_latest_blockhash()?: one attempt
get_latest_blockhash(e) == e.rpc_up /\ e.failures = 0

\* UncompressedRef::create
Create(p, k, e) ==
    LET mint == KeypairNew(k)
        owner == p.owner_address
        message == Message("create", Payer, <<mint, owner>>, << >>, e.blockhash)
    IN  IF ~ParsePubkeyOk(owner) THEN BuildErr("UncompressedRef::create", 1)
        ELSE IF ~call_with_retry(e) THEN ClientErr("UncompressedRef::create", 1)
        ELSE BuildOk("UncompressedRef::create", 1,
                Pending(message, <<Payer, Sign(mint, message), owner>>),
                [metadata |-> FindMetadata(mint),
                 associated_token_account |-> GetAssociatedTokenAddress(owner, mint),
                 owner |-> owner,
                 master_edition |-> FindMasterEdition(mint),
                 mint |-> mint,
                 update_authority |-> owner])

\* UncompressedRef::update
Update(collection, p, e) ==
    LET update_authority == p.owner_address
        message == Message("update", Payer, <<update_authority>>, <<collection.metadata>>, e.blockhash)
    IN  IF ~ParsePubkeyOk(update_authority) THEN BuildErr("UncompressedRef::update", 0)
        ELSE IF ~call_with_retry(e) THEN ClientErr("UncompressedRef::update", 0)
        ELSE BuildOk("UncompressedRef::update", 0,
                Pending(message, <<Payer, update_authority>>),
                [metadata |-> collection.metadata, update_authority |-> update_authority])

\* UncompressedRef::update_mint
UpdateMint(collection, collection_mint, p, e) ==
    LET update_authority == p.owner_address
        metadata == FindMetadata(collection_mint.mint)
        message == Message("update_mint", Payer, <<update_authority>>,
                           <<metadata, collection.mint>>, e.blockhash)
    IN  IF ~ParsePubkeyOk(update_authority) THEN BuildErr("UncompressedRef::update_mint", 0)
        ELSE IF ~call_with_retry(e) THEN ClientErr("UncompressedRef::update_mint", 0)
        ELSE BuildOk("UncompressedRef::update_mint", 0,
                Pending(message, <<Payer, update_authority>>),
                [payer |-> Payer, metadata |-> metadata, update_authority |-> update_authority])

\* retry_update_mint returning the stored message as it is
RetryUpdateMint_stale(revision, e) ==
    IF ~call_with_retry(e) THEN ClientErr("UncompressedRef::retry_update_mint", 0)
    ELSE BuildOk("UncompressedRef::retry_update_mint", 0,
            Pending(revision.serialized_message,
                    <<revision.payer, revision.update_authority>>),
            [payer |-> revision.payer, metadata |-> revision.metadata,
             update_authority |-> revision.update_authority])

\* UncompressedRef::retry_update_mint
RetryUpdateMint(revision, e) ==
    IF ~call_with_retry(e) THEN ClientErr("UncompressedRef::retry_update_mint", 0)
    ELSE BuildOk("UncompressedRef::retry_update_mint", 0,
            Pending([revision.serialized_message EXCEPT !.recent_blockhash = e.blockhash],
                    <<revision.payer, revision.update_authority>>),
            [payer |-> revision.payer, metadata |-> revision.metadata,
             update_authority |-> revision.update_authority])

\* UncompressedRef::switch
Switch(mint, collection, new_collection, e) ==
    LET message == Message("switch", Payer, <<collection.owner, new_collection.owner>>,
                           <<FindMetadata(mint.mint), collection.mint, new_collection.mint>>,
                           e.blockhash)
    IN  IF ~call_with_retry(e) THEN ClientErr("UncompressedRef::switch", 0)
        ELSE BuildOk("UncompressedRef::switch", 0,
                Pending(message, <<Payer, collection.owner>>),
                [payer |-> Payer, new_collection_authority |-> new_collection.owner])

\* EditionRef::mint
MintEdition(collection, p, k, e) ==
    LET owner == p.owner_address
        recipient == p.recipient_address
        new_mint == KeypairNew(k)
        message == Message("mint_edition", Payer, <<new_mint, owner>>,
                           <<recipient, collection.mint>>, e.blockhash)
    IN  IF ~ParsePubkeyOk(owner) THEN BuildErr("EditionRef::mint", 0)
        ELSE IF ~ParsePubkeyOk(recipient) THEN BuildErr("EditionRef::mint", 0)
        ELSE IF ~call_with_retry(e) THEN ClientErr("EditionRef::mint", 1)
        ELSE BuildOk("EditionRef::mint", 1,
                Pending(message, <<Payer, Sign(new_mint, message), owner>>),
                [owner |-> owner,
                 edition |-> FindMasterEdition(new_mint),
                 mint |-> new_mint,
                 metadata |-> FindMetadata(new_mint),
                 associated_token_account |-> GetAssociatedTokenAddress(recipient, new_mint),
                 recipient |-> recipient])

\* UncompressedRef::mint
MintUncompressed(collection, p, k, e) ==
    LET mint == KeypairNew(k)
        owner == p.owner_address
        recipient == p.recipient_address
        message == Message("mint", Payer, <<mint, owner>>, <<recipient, collection.mint>>, e.blockhash)
    IN  IF ~ParsePubkeyOk(owner) THEN BuildErr("UncompressedRef::mint", 1)
        ELSE IF ~ParsePubkeyOk(recipient) THEN BuildErr("UncompressedRef::mint", 1)
        ELSE IF ~call_with_retry(e) THEN ClientErr("UncompressedRef::mint", 1)
        ELSE BuildOk("UncompressedRef::mint", 1,
                Pending(message, <<Payer, Sign(mint, message), owner>>),
                [mint |-> mint,
                 metadata |-> FindMetadata(mint),
                 owner |-> owner,
                 associated_token_account |-> GetAssociatedTokenAddress(recipient, mint),
                 recipient |-> recipient,
                 update_authority |-> owner])

\* CompressedRef::mint
MintCompressed(collection, p, e) ==
    LET recipient == p.recipient_address
        owner == p.owner_address
        message == Message("mint_compressed", Payer, <<owner>>,
                           <<recipient, MerkleTree, collection.mint>>, e.blockhash)
    IN  IF ~ParsePubkeyOk(recipient) THEN BuildErr("CompressedRef::mint", 0)
        ELSE IF ~ParsePubkeyOk(owner) THEN BuildErr("CompressedRef::mint", 0)
        ELSE IF ~get_latest_blockhash(e) THEN ClientErr("CompressedRef::mint", 0)
        ELSE BuildOk("CompressedRef::mint", 0,
                Pending(message, <<Payer, owner>>),
                [merkle_tree |-> MerkleTree,
                 tree_authority |-> TreeAuthority,
                 tree_delegate |-> Payer,
                 leaf_owner |-> recipient])

\* UncompressedRef::transfer
TransferUncompressed(collection_mint, p, e) ==
    LET sender == p.owner_address
        recipient == p.recipient_address
        source_ata == GetAssociatedTokenAddress(sender, collection_mint.mint)
        destination_ata == GetAssociatedTokenAddress(recipient, collection_mint.mint)
        message == Message("transfer", Payer, <<sender>>,
                           <<recipient, source_ata, destination_ata>>, e.blockhash)
    IN  IF ~ParsePubkeyOk(sender) THEN BuildErr("UncompressedRef::transfer", 0)
        ELSE IF ~ParsePubkeyOk(recipient) THEN BuildErr("UncompressedRef::transfer", 0)
        ELSE IF ~call_with_retry(e) THEN ClientErr("UncompressedRef::transfer", 0)
        ELSE BuildOk("UncompressedRef::transfer", 0,
                Pending(message, <<Payer, sender>>),
                [owner |-> sender, recipient |-> recipient,
                 recipient_associated_token_account |-> destination_ata,
                 owner_associated_token_account |-> source_ata])

\* CompressedRef::transfer asking the asset API for a leaf without asset id
TransferCompressed_fetch(compression_leaf, p, e) ==
    LET recipient == p.recipient_address
        owner == p.owner_address
        fetched == <<"get_asset", "get_asset_proof">>
    IN  IF ~ParsePubkeyOk(recipient) THEN BuildErr("CompressedRef::transfer", 0)
        ELSE IF ~ParsePubkeyOk(owner) THEN BuildErr("CompressedRef::transfer", 0)
        ELSE IF ~e.rpc_up \/ ~IsSome(compression_leaf.asset_id)
        THEN [ClientErr("CompressedRef::transfer", 0) EXCEPT !.asset_api = <<"get_asset">>]
        ELSE IF ~get_latest_blockhash(e)
        THEN [ClientErr("CompressedRef::transfer", 0) EXCEPT !.asset_api = fetched]
        ELSE [BuildOk("CompressedRef::transfer", 0,
                Pending(Message("transfer_compressed", Payer, <<owner>>,
                                <<recipient, compression_leaf.merkle_tree,
                                  Unwrap(compression_leaf.asset_id)>>, e.blockhash),
                        <<Payer, owner>>),
                [owner |-> owner, recipient |-> recipient]) EXCEPT !.asset_api = fetched]

\* CompressedRef::transfer; the asset and its proof come from the asset API,
\* which is reachable when the RPC endpoints are
TransferCompressed(compression_leaf, p, e) ==
    LET recipient == p.recipient_address
        owner == p.owner_address
        fetched == <<"get_asset", "get_asset_proof">>
    IN  IF ~ParsePubkeyOk(recipient) THEN BuildErr("CompressedRef::transfer", 0)
        ELSE IF ~ParsePubkeyOk(owner) THEN BuildErr("CompressedRef::transfer", 0)
        ELSE IF ~IsSome(compression_leaf.asset_id) THEN BuildErr("CompressedRef::transfer", 0)
        ELSE IF ~e.rpc_up
        THEN [ClientErr("CompressedRef::transfer", 0) EXCEPT !.asset_api = <<"get_asset">>]
        ELSE IF ~get_latest_blockhash(e)
        THEN [ClientErr("CompressedRef::transfer", 0) EXCEPT !.asset_api = fetched]
        ELSE [BuildOk("CompressedRef::transfer", 0,
                Pending(Message("transfer_compressed", Payer, <<owner>>,
                                <<recipient, compression_leaf.merkle_tree,
                                  Unwrap(compression_leaf.asset_id)>>, e.blockhash),
                        <<Payer, owner>>),
                [owner |-> owner, recipient |-> recipient]) EXCEPT !.asset_api = fetched]

----------------------------------------------------------------------------
(* Intent handlers (Processor::create_collection ... retry_mint_to_collection) *)
(* A handler's result: Ok(tx) or Err(kind), with the database as the handler   *)
(* leaves it, the number of keypairs its builder generated and the backend      *)
(* methods it called.                                                          *)

AsmErr(err, db, keys, calls) ==
    [ok |-> FALSE, err |-> err, db |-> db, keys |-> keys, tx |-> NoTx, calls |-> calls,
     asset_api |-> << >>]
AsmOk(db, keys, tx, calls) ==
    [ok |-> TRUE, err |-> "", db |-> db, keys |-> keys, tx |-> tx, calls |-> calls,
     asset_api |-> << >>]

\* create_collection with the result of the insert ignored
create_collection_unchecked(db, k, key, p, e) ==
    LET tx == Create(p, k, e)
        a == tx.addresses
        collection == [id |-> key.id,
                       master_edition |-> a.master_edition,
                       owner |-> a.owner,
                       metadata |-> a.metadata,
                       associated_token_account |-> a.associated_token_account,
                       mint |-> a.mint,
                       update_authority |-> a.update_authority]
    IN  IF ~tx.ok THEN AsmErr("Solana", db, tx.keys, <<tx.backend>>)
        ELSE IF ~ParseUuidOk(key.id) THEN AsmErr("InvalidUuid", db, tx.keys, <<tx.backend>>)
        ELSE IF ~WriteOk(e) \/ ~InsertOk(db.collections, key.id) THEN AsmOk(db, tx.keys, tx.tx, <<tx.backend>>)
        ELSE AsmOk([db EXCEPT !.collections = Put(@, key.id, collection)], tx.keys, tx.tx, <<tx.backend>>)

\* Processor::create_collection
create_collection(db, k, key, p, e) ==
    LET tx == Create(p, k, e)
        a == tx.addresses
        collection == [id |-> key.id,
                       master_edition |-> a.master_edition,
                       owner |-> a.owner,
                       metadata |-> a.metadata,
                       associated_token_account |-> a.associated_token_account,
                       mint |-> a.mint,
                       update_authority |-> a.update_authority]
    IN  IF ~tx.ok THEN AsmErr("Solana", db, tx.keys, <<tx.backend>>)
        ELSE IF ~ParseUuidOk(key.id) THEN AsmErr("InvalidUuid", db, tx.keys, <<tx.backend>>)
        ELSE IF ~WriteOk(e) \/ ~InsertOk(db.collections, key.id) THEN AsmErr("DbError", db, tx.keys, <<tx.backend>>)
        ELSE AsmOk([db EXCEPT !.collections = Put(@, key.id, collection)], tx.keys, tx.tx, <<tx.backend>>)

\* retry_create_collection leaving the mint column as it was
retry_create_collection_keep(db, k, key, p, e) ==
    LET tx == Create(p, k, e)
        a == tx.addresses
        found == FindById(db.collections, key.id)
        collection == [Unwrap(found) EXCEPT
                         !.metadata = a.metadata,
                         !.associated_token_account = a.associated_token_account,
                         !.master_edition = a.master_edition,
                         !.update_authority = a.update_authority,
                         !.owner = a.owner]
    IN  IF ~tx.ok THEN AsmErr("Solana", db, tx.keys, <<tx.backend>>)
        ELSE IF ~ParseUuidOk(key.id) THEN AsmErr("InvalidUuid", db, tx.keys, <<tx.backend>>)
        ELSE IF ~ReadOk(e) THEN AsmErr("DbError", db, tx.keys, <<tx.backend>>)
        ELSE IF ~IsSome(found) THEN AsmErr("RecordNotFound", db, tx.keys, <<tx.backend>>)
        ELSE IF ~WriteOk(e) THEN AsmErr("DbError", db, tx.keys, <<tx.backend>>)
        ELSE AsmOk([db EXCEPT !.collections = Put(@, key.id, collection)], tx.keys, tx.tx, <<tx.backend>>)

\* Processor::retry_create_collection
retry_create_collection(db, k, key, p, e) ==
    LET tx == Create(p, k, e)
        a == tx.addresses
        found == FindById(db.collections, key.id)
        collection == [Unwrap(found) EXCEPT
                         !.metadata = a.metadata,
                         !.associated_token_account = a.associated_token_account,
                         !.mint = a.mint,
                         !.master_edition = a.master_edition,
                         !.update_authority = a.update_authority,
                         !.owner = a.owner]
    IN  IF ~tx.ok THEN AsmErr("Solana", db, tx.keys, <<tx.backend>>)
        ELSE IF ~ParseUuidOk(key.id) THEN AsmErr("InvalidUuid", db, tx.keys, <<tx.backend>>)
        ELSE IF ~ReadOk(e) THEN AsmErr("DbError", db, tx.keys, <<tx.backend>>)
        ELSE IF ~IsSome(found) THEN AsmErr("RecordNotFound", db, tx.keys, <<tx.backend>>)
        ELSE IF ~WriteOk(e) THEN AsmErr("DbError", db, tx.keys, <<tx.backend>>)
        ELSE AsmOk([db EXCEPT !.collections = Put(@, key.id, collection)], tx.keys, tx.tx, <<tx.backend>>)

\* Processor::mint_to_collection
mint_to_collection(db, k, key, p, e) ==
    LET found == FindById(db.collections, p.collection_id)
        collection == Unwrap(found)
        ctx == MintCompressed(collection, p, e)
        compression_leaf == [id |-> key.id,
                             collection_id |-> collection.id,
                             merkle_tree |-> ctx.addresses.merkle_tree,
                             tree_authority |-> ctx.addresses.tree_authority,
                             tree_delegate |-> ctx.addresses.tree_delegate,
                             leaf_owner |-> ctx.addresses.leaf_owner,
                             asset_id |-> None]
        utx == MintUncompressed(collection, p, k, e)
        collection_mint == [id |-> key.id,
                            collection_id |-> collection.id,
                            owner |-> utx.addresses.recipient,
                            mint |-> utx.addresses.mint,
                            associated_token_account |-> utx.addresses.associated_token_account]
    IN  IF ~ParseUuidOk(key.id) THEN AsmErr("InvalidUuid", db, 0, << >>)
        ELSE IF ~ParseUuidOk(p.collection_id) THEN AsmErr("InvalidUuid", db, 0, << >>)
        ELSE IF ~ReadOk(e) THEN AsmErr("DbError", db, 0, << >>)
        ELSE IF ~IsSome(found) THEN AsmErr("RecordNotFound", db, 0, << >>)
        ELSE IF p.compressed THEN
            IF ~ctx.ok THEN AsmErr("Solana", db, ctx.keys, <<ctx.backend>>)
            ELSE IF ~WriteOk(e) \/ ~InsertOk(db.compression_leafs, key.id) THEN AsmErr("DbError", db, ctx.keys, <<ctx.backend>>)
            ELSE AsmOk([db EXCEPT !.compression_leafs = Put(@, key.id, compression_leaf)], ctx.keys, ctx.tx, <<ctx.backend>>)
        ELSE
            IF ~utx.ok THEN AsmErr("Solana", db, utx.keys, <<utx.backend>>)
            ELSE IF ~WriteOk(e) \/ ~InsertOk(db.collection_mints, key.id) THEN AsmErr("DbError", db, utx.keys, <<utx.backend>>)
            ELSE AsmOk([db EXCEPT !.collection_mints = Put(@, key.id, collection_mint)], utx.keys, utx.tx, <<utx.backend>>)

\* mint_drop storing the collection's owner as the owner of the mint
mint_drop_owner(db, k, key, p, e) ==
    LET found == FindById(db.collections, p.collection_id)
        collection == Unwrap(found)
        tx == MintEdition(collection, p, k, e)
        collection_mint == [id |-> key.id,
                            collection_id |-> collection.id,
                            mint |-> tx.addresses.mint,
                            owner |-> tx.addresses.owner,
                            associated_token_account |-> tx.addresses.associated_token_account]
    IN  IF ~ParseUuidOk(key.id) THEN AsmErr("InvalidUuid", db, 0, << >>)
        ELSE IF ~ParseUuidOk(p.collection_id) THEN AsmErr("InvalidUuid", db, 0, << >>)
        ELSE IF ~ReadOk(e) THEN AsmErr("DbError", db, 0, << >>)
        ELSE IF ~IsSome(found) THEN AsmErr("RecordNotFound", db, 0, << >>)
        ELSE IF ~tx.ok THEN AsmErr("Solana", db, tx.keys, <<tx.backend>>)
        ELSE IF ~WriteOk(e) \/ ~InsertOk(db.collection_mints, key.id) THEN AsmErr("DbError", db, tx.keys, <<tx.backend>>)
        ELSE AsmOk([db EXCEPT !.collection_mints = Put(@, key.id, collection_mint)], tx.keys, tx.tx, <<tx.backend>>)

\* Processor::mint_drop
mint_drop(db, k, key, p, e) ==
    LET found == FindById(db.collections, p.collection_id)
        collection == Unwrap(found)
        tx == MintEdition(collection, p, k, e)
        collection_mint == [id |-> key.id,
                            collection_id |-> collection.id,
                            mint |-> tx.addresses.mint,
                            owner |-> tx.addresses.recipient,
                            associated_token_account |-> tx.addresses.associated_token_account]
    IN  IF ~ParseUuidOk(key.id) THEN AsmErr("InvalidUuid", db, 0, << >>)
        ELSE IF ~ParseUuidOk(p.collection_id) THEN AsmErr("InvalidUuid", db, 0, << >>)
        ELSE IF ~ReadOk(e) THEN AsmErr("DbError", db, 0, << >>)
        ELSE IF ~IsSome(found) THEN AsmErr("RecordNotFound", db, 0, << >>)
        ELSE IF ~tx.ok THEN AsmErr("Solana", db, tx.keys, <<tx.backend>>)
        ELSE IF ~WriteOk(e) \/ ~InsertOk(db.collection_mints, key.id) THEN AsmErr("DbError", db, tx.keys, <<tx.backend>>)
        ELSE AsmOk([db EXCEPT !.collection_mints = Put(@, key.id, collection_mint)], tx.keys, tx.tx, <<tx.backend>>)

\* Processor::update_collection
update_collection(db, k, key, p, e) ==
    LET found == FindById(db.collections, key.id)
        tx == Update(Unwrap(found), p, e)
    IN  IF ~ParseUuidOk(key.id) THEN AsmErr("InvalidUuid", db, 0, << >>)
        ELSE IF ~ReadOk(e) THEN AsmErr("DbError", db, 0, << >>)
        ELSE IF ~IsSome(found) THEN AsmErr("RecordNotFound", db, 0, << >>)
        ELSE IF ~tx.ok THEN AsmErr("Solana", db, tx.keys, <<tx.backend>>)
        ELSE AsmOk(db, tx.keys, tx.tx, <<tx.backend>>)

\* update_collection_mint with the revision stored before the builder is called
update_collection_mint_early(db, k, key, p, e) ==
    LET collection == FindById(db.collections, p.collection_id)
        mint == FindById(db.collection_mints, p.mint_id)
        tx == UpdateMint(Unwrap(collection), Unwrap(mint), p, e)
        revision == [id |-> key.id,
                     mint_id |-> Unwrap(mint).id,
                     serialized_message |-> tx.tx.serialized_message,
                     payer |-> Payer,
                     metadata |-> FindMetadata(Unwrap(mint).mint),
                     update_authority |-> p.owner_address]
        stored == [db EXCEPT !.update_revisions = Put(@, key.id, revision)]
    IN  IF ~ParseUuidOk(p.collection_id) THEN AsmErr("InvalidUuid", db, 0, << >>)
        ELSE IF ~ReadOk(e) THEN AsmErr("DbError", db, 0, << >>)
        ELSE IF ~IsSome(collection) THEN AsmErr("RecordNotFound", db, 0, << >>)
        ELSE IF ~ParseUuidOk(p.mint_id) THEN AsmErr("InvalidUuid", db, 0, << >>)
        ELSE IF ~IsSome(mint) THEN AsmErr("RecordNotFound", db, 0, << >>)
        ELSE IF ~ParseUuidOk(key.id) THEN AsmErr("InvalidUuid", db, 0, << >>)
        ELSE IF ~WriteOk(e) \/ ~InsertOk(db.update_revisions, key.id) THEN AsmErr("DbError", db, 0, << >>)
        ELSE IF ~tx.ok THEN AsmErr("Solana", stored, tx.keys, <<tx.backend>>)
        ELSE AsmOk(stored, tx.keys, tx.tx, <<tx.backend>>)

\* Processor::update_collection_mint
update_collection_mint(db, k, key, p, e) ==
    LET collection == FindById(db.collections, p.collection_id)
        mint == FindById(db.collection_mints, p.mint_id)
        tx == UpdateMint(Unwrap(collection), Unwrap(mint), p, e)
        revision == [id |-> key.id,
                     mint_id |-> Unwrap(mint).id,
                     serialized_message |-> tx.tx.serialized_message,
                     payer |-> tx.addresses.payer,
                     metadata |-> tx.addresses.metadata,
                     update_authority |-> tx.addresses.update_authority]
    IN  IF ~ParseUuidOk(p.collection_id) THEN AsmErr("InvalidUuid", db, 0, << >>)
        ELSE IF ~ReadOk(e) THEN AsmErr("DbError", db, 0, << >>)
        ELSE IF ~IsSome(collection) THEN AsmErr("RecordNotFound", db, 0, << >>)
        ELSE IF ~ParseUuidOk(p.mint_id) THEN AsmErr("InvalidUuid", db, 0, << >>)
        ELSE IF ~IsSome(mint) THEN AsmErr("RecordNotFound", db, 0, << >>)
        ELSE IF ~tx.ok THEN AsmErr("Solana", db, tx.keys, <<tx.backend>>)
        ELSE IF ~ParseUuidOk(key.id) THEN AsmErr("InvalidUuid", db, tx.keys, <<tx.backend>>)
        ELSE IF ~WriteOk(e) \/ ~InsertOk(db.update_revisions, key.id) THEN AsmErr("DbError", db, tx.keys, <<tx.backend>>)
        ELSE AsmOk([db EXCEPT !.update_revisions = Put(@, key.id, revision)], tx.keys, tx.tx, <<tx.backend>>)

\* Processor::retry_update_collection_mint
retry_update_collection_mint(db, k, key, p, e) ==
    LET revision == FindById(db.update_revisions, key.id)
        tx == RetryUpdateMint(Unwrap(revision), e)
    IN  IF ~ParseUuidOk(key.id) THEN AsmErr("InvalidUuid", db, 0, << >>)
        ELSE IF ~ReadOk(e) THEN AsmErr("DbError", db, 0, << >>)
        ELSE IF ~IsSome(revision) THEN AsmErr("RecordNotFound", db, 0, << >>)
        ELSE IF ~tx.ok THEN AsmErr("Solana", db, tx.keys, <<tx.backend>>)
        ELSE AsmOk(db, tx.keys, tx.tx, <<tx.backend>>)

\* transfer_asset looking for the compression leaf first
transfer_asset_leaf_first(db, k, key, p, e) ==
    LET collection_mint == FindById(db.collection_mints, p.mint_id)
        utx == TransferUncompressed(Unwrap(collection_mint), p, e)
        compression_leaf == FindById(db.compression_leafs, p.mint_id)
        ctx == TransferCompressed(Unwrap(compression_leaf), p, e)
    IN  IF ~ParseUuidOk(p.mint_id) THEN AsmErr("InvalidUuid", db, 0, << >>)
        ELSE IF ~ReadOk(e) THEN AsmErr("DbError", db, 0, << >>)
        ELSE IF IsSome(compression_leaf) THEN
            IF ~ctx.ok
            THEN [AsmErr("Solana", db, ctx.keys, <<ctx.backend>>) EXCEPT !.asset_api = ctx.asset_api]
            ELSE [AsmOk(db, ctx.keys, ctx.tx, <<ctx.backend>>) EXCEPT !.asset_api = ctx.asset_api]
        ELSE IF ~IsSome(collection_mint) THEN AsmErr("RecordNotFound", db, 0, << >>)
        ELSE IF ~utx.ok THEN AsmErr("Solana", db, utx.keys, <<utx.backend>>)
        ELSE AsmOk(db, utx.keys, utx.tx, <<utx.backend>>)

\* Processor::transfer_asset
transfer_asset(db, k, key, p, e) ==
    LET collection_mint == FindById(db.collection_mints, p.mint_id)
        utx == TransferUncompressed(Unwrap(collection_mint), p, e)
        compression_leaf == FindById(db.compression_leafs, p.mint_id)
        ctx == TransferCompressed(Unwrap(compression_leaf), p, e)
    IN  IF ~ParseUuidOk(p.mint_id) THEN AsmErr("InvalidUuid", db, 0, << >>)
        ELSE IF ~ReadOk(e) THEN AsmErr("DbError", db, 0, << >>)
        ELSE IF IsSome(collection_mint) THEN
            IF ~utx.ok THEN AsmErr("Solana", db, utx.keys, <<utx.backend>>) ELSE AsmOk(db, utx.keys, utx.tx, <<utx.backend>>)
        ELSE IF ~IsSome(compression_leaf) THEN AsmErr("RecordNotFound", db, 0, << >>)
        ELSE IF ~ctx.ok
        THEN [AsmErr("Solana", db, ctx.keys, <<ctx.backend>>) EXCEPT !.asset_api = ctx.asset_api]
        ELSE [AsmOk(db, ctx.keys, ctx.tx, <<ctx.backend>>) EXCEPT !.asset_api = ctx.asset_api]

\* Processor::switch_mint_collection
switch_mint_collection(db, k, key, p, e) ==
    LET found == FindByIdWithCollection(db, p.mint_id)
        mint == Unwrap(found)[1]
        collection == Unwrap(found)[2]
        new_collection == FindById(db.collections, p.collection_id)
        tx == Switch(mint, Unwrap(collection), Unwrap(new_collection), e)
    IN  IF ~ParseUuidOk(p.mint_id) THEN AsmErr("InvalidUuid", db, 0, << >>)
        ELSE IF ~ReadOk(e) THEN AsmErr("DbError", db, 0, << >>)
        ELSE IF ~IsSome(found) THEN AsmErr("RecordNotFound", db, 0, << >>)
        ELSE IF ~IsSome(collection) THEN AsmErr("RecordNotFound", db, 0, << >>)
        ELSE IF ~ParseUuidOk(p.collection_id) THEN AsmErr("InvalidUuid", db, 0, << >>)
        ELSE IF ~IsSome(new_collection) THEN AsmErr("RecordNotFound", db, 0, << >>)
        ELSE IF ~tx.ok THEN AsmErr("Solana", db, tx.keys, <<tx.backend>>)
        ELSE AsmOk(db, tx.keys, tx.tx, <<tx.backend>>)

\* Processor::retry_mint_drop
retry_mint_drop(db, k, key, p, e) ==
    LET found == FindByIdWithCollection(db, key.id)
        collection_mint == Unwrap(found)[1]
        collection == Unwrap(found)[2]
        tx == MintEdition(Unwrap(collection), p, k, e)
        updated == [collection_mint EXCEPT
                      !.mint = tx.addresses.mint,
                      !.owner = tx.addresses.recipient,
                      !.associated_token_account = tx.addresses.associated_token_account]
    IN  IF ~ParseUuidOk(key.id) THEN AsmErr("InvalidUuid", db, 0, << >>)
        ELSE IF ~ReadOk(e) THEN AsmErr("DbError", db, 0, << >>)
        ELSE IF ~IsSome(found) THEN AsmErr("RecordNotFound", db, 0, << >>)
        ELSE IF ~IsSome(collection) THEN AsmErr("RecordNotFound", db, 0, << >>)
        ELSE IF ~tx.ok THEN AsmErr("Solana", db, tx.keys, <<tx.backend>>)
        ELSE IF ~WriteOk(e) THEN AsmErr("DbError", db, tx.keys, <<tx.backend>>)
        ELSE AsmOk([db EXCEPT !.collection_mints = Put(@, key.id, updated)], tx.keys, tx.tx, <<tx.backend>>)

\* retry_mint_to_collection falling back to the compression leaf of the id
\* and to the compressed backend
retry_mint_to_collection_leaf(db, k, key, p, e) ==
    LET found == FindByIdWithCollection(db, key.id)
        leaf == FindById(db.compression_leafs, key.id)
        collection == FindById(db.collections, Unwrap(leaf).collection_id)
        ctx == MintCompressed(Unwrap(collection), p, e)
        tx == MintUncompressed(Unwrap(Unwrap(found)[2]), p, k, e)
        updated == [Unwrap(found)[1] EXCEPT
                      !.mint = tx.addresses.mint,
                      !.owner = tx.addresses.recipient,
                      !.associated_token_account = tx.addresses.associated_token_account]
    IN  IF ~ParseUuidOk(key.id) THEN AsmErr("InvalidUuid", db, 0, << >>)
        ELSE IF ~ReadOk(e) THEN AsmErr("DbError", db, 0, << >>)
        ELSE IF ~IsSome(found) THEN
            IF ~IsSome(leaf) THEN AsmErr("RecordNotFound", db, 0, << >>)
            ELSE IF ~IsSome(collection) THEN AsmErr("RecordNotFound", db, 0, << >>)
            ELSE IF ~ctx.ok THEN AsmErr("Solana", db, ctx.keys, <<ctx.backend>>)
            ELSE AsmOk(db, ctx.keys, ctx.tx, <<ctx.backend>>)
        ELSE IF ~IsSome(Unwrap(found)[2]) THEN AsmErr("RecordNotFound", db, 0, << >>)
        ELSE IF ~tx.ok THEN AsmErr("Solana", db, tx.keys, <<tx.backend>>)
        ELSE IF ~WriteOk(e) THEN AsmErr("DbError", db, tx.keys, <<tx.backend>>)
        ELSE AsmOk([db EXCEPT !.collection_mints = Put(@, key.id, updated)], tx.keys, tx.tx, <<tx.backend>>)

\* Processor::retry_mint_to_collection
retry_mint_to_collection(db, k, key, p, e) ==
    LET found == FindByIdWithCollection(db, key.id)
        collection_mint == Unwrap(found)[1]
        collection == Unwrap(found)[2]
        tx == MintUncompressed(Unwrap(collection), p, k, e)
        updated == [collection_mint EXCEPT
                      !.mint = tx.addresses.mint,
                      !.owner = tx.addresses.recipient,
                      !.associated_token_account = tx.addresses.associated_token_account]
    IN  IF ~ParseUuidOk(key.id) THEN AsmErr("InvalidUuid", db, 0, << >>)
        ELSE IF ~ReadOk(e) THEN AsmErr("DbError", db, 0, << >>)
        ELSE IF ~IsSome(found) THEN AsmErr("RecordNotFound", db, 0, << >>)
        ELSE IF ~IsSome(collection) THEN AsmErr("RecordNotFound", db, 0, << >>)
        ELSE IF ~tx.ok THEN AsmErr("Solana", db, tx.keys, <<tx.backend>>)
        ELSE IF ~WriteOk(e) THEN AsmErr("DbError", db, tx.keys, <<tx.backend>>)
        ELSE AsmOk([db EXCEPT !.collection_mints = Put(@, key.id, updated)], tx.keys, tx.tx, <<tx.backend>>)

\* the dispatch with a retried mint sent to the handler of a first mint
Assemble_retry(kind, db, k, key, p, e) ==
    CASE kind \in CreateKinds -> create_collection(db, k, key, p, e)
      [] kind \in RetryCreateKinds -> retry_create_collection(db, k, key, p, e)
      [] kind \in UpdateKinds -> update_collection(db, k, key, p, e)
      [] kind \in MintToKinds \cup RetryMintToKinds -> mint_to_collection(db, k, key, p, e)
      [] kind = "MintEditionDrop" -> mint_drop(db, k, key, p, e)
      [] kind = "RetryMintEditionDrop" -> retry_mint_drop(db, k, key, p, e)
      [] kind = "TransferAsset" -> transfer_asset(db, k, key, p, e)
      [] kind = "UpdateCollectionMint" -> update_collection_mint(db, k, key, p, e)
      [] kind = "RetryUpdateCollectionMint" -> retry_update_collection_mint(db, k, key, p, e)
      [] kind = "SwitchMintCollection" -> switch_mint_collection(db, k, key, p, e)

\* Processor::process, Services::Nfts: the handler the intent's kind selects
Assemble(kind, db, k, key, p, e) ==
    CASE kind \in CreateKinds -> create_collection(db, k, key, p, e)
      [] kind \in RetryCreateKinds -> retry_create_collection(db, k, key, p, e)
      [] kind \in UpdateKinds -> update_collection(db, k, key, p, e)
      [] kind \in MintToKinds -> mint_to_collection(db, k, key, p, e)
      [] kind \in RetryMintToKinds -> retry_mint_to_collection(db, k, key, p, e)
      [] kind = "MintEditionDrop" -> mint_drop(db, k, key, p, e)
      [] kind = "RetryMintEditionDrop" -> retry_mint_drop(db, k, key, p, e)
      [] kind = "TransferAsset" -> transfer_asset(db, k, key, p, e)
      [] kind = "UpdateCollectionMint" -> update_collection_mint(db, k, key, p, e)
      [] kind = "RetryUpdateCollectionMint" -> retry_update_collection_mint(db, k, key, p, e)
      [] kind = "SwitchMintCollection" -> switch_mint_collection(db, k, key, p, e)

----------------------------------------------------------------------------
(* Outbound events *)

\* EventKind::into_sign_request
into_sign_request(kind, tx) ==
    [event |-> "SigningRequested", kind |-> kind, reason |-> "",
     signature |-> None, address |-> None, tx |-> tx]

\* EventKind::into_failure
into_failure(kind, reason) ==
    [event |-> "Failed", kind |-> kind, reason |-> reason,
     signature |-> None, address |-> None, tx |-> NoTx]

\* SolanaCompletedMintTransaction {signature, address}
CompletedMint(kind, signature, address) ==
    [event |-> "Submitted", kind |-> kind, reason |-> "",
     signature |-> Some(signature), address |-> Some(address), tx |-> NoTx]

\* SolanaCompletedUpdateTransaction / SolanaCompletedTransferTransaction {signature}
CompletedUpdate(kind, signature) ==
    [event |-> "Submitted", kind |-> kind, reason |-> "",
     signature |-> Some(signature), address |-> None, tx |-> NoTx]

\* producer.send(Some(event), Some(key))
Send(event, key) == [event |-> event, key |-> key]

\* Processor::event_failed
event_failed(kind, key, reason) == <<Send(into_failure(kind, reason), key)>>

----------------------------------------------------------------------------
(* Signed topic: submission (Solana::submit_transaction) and the success     *)
(* event (EventKind::into_success)                                           *)

\* TransactionStatus::from_i32 (treasury.proto: Pending = 0, Ok = 1, Failed = 2)
\* from_i32 with an unknown value taken for Ok
TransactionStatusFromI32_ok(n) ==
    CASE n = 0 -> Some("Pending")
      [] n = 2 -> Some("Failed")
      [] OTHER -> Some("Ok")

TransactionStatusFromI32(n) ==
    CASE n = 0 -> Some("Pending")
      [] n = 1 -> Some("Ok")
      [] n = 2 -> Some("Failed")
      [] OTHER -> None

ParseSignatureOk(s) == s.t = "signature"
DeserializeOk(m) == m.op # "corrupt"

\* submit_transaction with a second send_transaction after a failed one
submit_transaction_retry(res, e) ==
    IF \E i \in 1..Len(res.signed_message_signatures) :
          ~ParseSignatureOk(res.signed_message_signatures[i])
    THEN [ok |-> FALSE, sends |-> 0, sig |-> None]
    ELSE IF ~IsSome(res.serialized_message) THEN [ok |-> FALSE, sends |-> 0, sig |-> None]
    ELSE IF ~DeserializeOk(Unwrap(res.serialized_message))
    THEN [ok |-> FALSE, sends |-> 0, sig |-> None]
    ELSE IF ~e.rpc_up THEN [ok |-> FALSE, sends |-> 2, sig |-> None]
    ELSE [ok |-> TRUE, sends |-> 1, sig |-> Some(res.signed_message_signatures[1])]

\* Solana::submit_transaction: the number of send_transaction calls and the result
submit_transaction(res, e) ==
    IF \E i \in 1..Len(res.signed_message_signatures) :
          ~ParseSignatureOk(res.signed_message_signatures[i])
    THEN [ok |-> FALSE, sends |-> 0, sig |-> None]
    ELSE IF ~IsSome(res.serialized_message) THEN [ok |-> FALSE, sends |-> 0, sig |-> None]
    ELSE IF ~DeserializeOk(Unwrap(res.serialized_message))
    THEN [ok |-> FALSE, sends |-> 0, sig |-> None]
    ELSE IF ~e.rpc_up THEN [ok |-> FALSE, sends |-> 1, sig |-> None]
    ELSE [ok |-> TRUE, sends |-> 1, sig |-> Some(res.signed_message_signatures[1])]

\* extract_compression_nonce reading the third inner instruction
extract_compression_nonce_third(response) ==
    LET Err(x) == [ok |-> FALSE, err |-> x, nonce |-> 0]
        groups == Unwrap(response.inner_instructions)
        instructions == groups[1]
        ins == instructions[3]
    IN  IF ~response.rpc_ok THEN Err("Rpc")
        ELSE IF ~response.meta THEN Err("NoTransactionMeta")
        ELSE IF ~IsSome(response.inner_instructions) THEN Err("NoInnerInstruction")
        ELSE IF Len(groups) < 1 THEN Err("NoInnerInstruction")
        ELSE IF Len(instructions) < 3 THEN Err("NoInnerInstruction")
        ELSE IF ins.form # "compiled" THEN Err("NoNonce")
        ELSE IF ins.data = "notbase58" THEN Err("Base58")
        ELSE IF ins.data = "notborsh" THEN Err("BorshDeserialize")
        ELSE IF ins.data = "appdata" THEN Err("NoNonce")
        ELSE [ok |-> TRUE, err |-> "", nonce |-> ins.index]

\* extract_compression_nonce reading the last group of inner instructions
extract_compression_nonce_last(response) ==
    LET Err(x) == [ok |-> FALSE, err |-> x, nonce |-> 0]
        groups == Unwrap(response.inner_instructions)
        instructions == groups[Len(groups)]
        ins == instructions[4]
    IN  IF ~response.rpc_ok THEN Err("Rpc")
        ELSE IF ~response.meta THEN Err("NoTransactionMeta")
        ELSE IF ~IsSome(response.inner_instructions) THEN Err("NoInnerInstruction")
        ELSE IF Len(groups) < 1 THEN Err("NoInnerInstruction")
        ELSE IF Len(instructions) < 4 THEN Err("NoInnerInstruction")
        ELSE IF ins.form # "compiled" THEN Err("NoNonce")
        ELSE IF ins.data = "notbase58" THEN Err("Base58")
        ELSE IF ins.data = "notborsh" THEN Err("BorshDeserialize")
        ELSE IF ins.data = "appdata" THEN Err("NoNonce")
        ELSE [ok |-> TRUE, err |-> "", nonce |-> ins.index]

\* Solana::extract_compression_nonce on the response of get_transaction
extract_compression_nonce(response) ==
    LET Err(x) == [ok |-> FALSE, err |-> x, nonce |-> 0]
        groups == Unwrap(response.inner_instructions)
        instructions == groups[1]
        ins == instructions[4]
    IN  IF ~response.rpc_ok THEN Err("Rpc")
        ELSE IF ~response.meta THEN Err("NoTransactionMeta")
        ELSE IF ~IsSome(response.inner_instructions) THEN Err("NoInnerInstruction")
        ELSE IF Len(groups) < 1 THEN Err("NoInnerInstruction")
        ELSE IF Len(instructions) < 4 THEN Err("NoInnerInstruction")
        ELSE IF ins.form # "compiled" THEN Err("NoNonce")
        ELSE IF ins.data = "notbase58" THEN Err("Base58")
        ELSE IF ins.data = "notborsh" THEN Err("BorshDeserialize")
        ELSE IF ins.data = "appdata" THEN Err("NoNonce")
        ELSE [ok |-> TRUE, err |-> "", nonce |-> ins.index]

\* into_success answering with the metadata account of a collection
into_success_metadata(kind, db, key, signature, e) ==
    LET Fail(x, detail, reads, extracted) ==
            [ok |-> FALSE, err |-> x, asset_err |-> detail,
             event |-> into_failure(kind, ""), db |-> db,
             reads |-> reads, extracted |-> extracted]
        Err(x, reads, extracted) == Fail(x, "", reads, extracted)
        Done(event, d, reads, extracted) ==
            [ok |-> TRUE, err |-> "", asset_err |-> "", event |-> event, db |-> d,
             reads |-> reads, extracted |-> extracted]
        collection == FindById(db.collections, key.id)
        collection_mint == FindById(db.collection_mints, key.id)
        compression_leaf == FindById(db.compression_leafs, key.id)
        nonce == extract_compression_nonce(e.confirmed)
        asset_id == GetAssetId(Unwrap(compression_leaf).merkle_tree, nonce.nonce)
        leaf == [Unwrap(compression_leaf) EXCEPT !.asset_id = Some(asset_id)]
    IN  CASE kind \in CreateKinds \cup RetryCreateKinds ->
               IF ~ParseUuidOk(key.id) THEN Err("InvalidUuid", {}, FALSE)
               ELSE IF ~ReadOk(e) THEN Err("DbError", {"collections"}, FALSE)
               ELSE IF ~IsSome(collection) THEN Err("RecordNotFound", {"collections"}, FALSE)
               ELSE Done(CompletedMint(kind, signature, Unwrap(collection).metadata), db,
                         {"collections"}, FALSE)
          [] kind = "MintToCollection" ->
               IF ~ParseUuidOk(key.id) THEN Err("InvalidUuid", {}, FALSE)
               ELSE IF ~ReadOk(e) THEN Err("DbError", {"collection_mints"}, FALSE)
               ELSE IF IsSome(compression_leaf) THEN
                   IF ~nonce.ok
                   THEN Fail("AssetId", nonce.err, {"collection_mints", "compression_leafs"}, TRUE)
                   ELSE IF ~WriteOk(e)
                   THEN Err("DbError", {"collection_mints", "compression_leafs"}, TRUE)
                   ELSE Done(CompletedMint(kind, signature, asset_id),
                             [db EXCEPT !.compression_leafs = Put(@, key.id, leaf)],
                             {"collection_mints", "compression_leafs"}, TRUE)
               ELSE IF ~IsSome(collection_mint)
               THEN Err("RecordNotFound", {"collection_mints", "compression_leafs"}, FALSE)
               ELSE Done(CompletedMint(kind, signature, Unwrap(collection_mint).mint), db,
                         {"collection_mints", "compression_leafs"}, FALSE)
          [] kind \in {"MintEditionDrop", "RetryMintEditionDrop", "MintOpenDrop"}
                      \cup RetryMintToKinds ->
               IF ~ParseUuidOk(key.id) THEN Err("InvalidUuid", {}, FALSE)
               ELSE IF ~ReadOk(e) THEN Err("DbError", {"collection_mints"}, FALSE)
               ELSE IF ~IsSome(collection_mint)
               THEN Err("RecordNotFound", {"collection_mints"}, FALSE)
               ELSE Done(CompletedMint(kind, signature, Unwrap(collection_mint).associated_token_account), db,
                         {"collection_mints"}, FALSE)
          [] OTHER -> Done(CompletedUpdate(kind, signature), db, {}, FALSE)

\* EventKind::into_success: the event, the database after it, the tables it
\* read and whether it called extract_compression_nonce
into_success(kind, db, key, signature, e) ==
    LET Fail(x, detail, reads, extracted) ==
            [ok |-> FALSE, err |-> x, asset_err |-> detail,
             event |-> into_failure(kind, ""), db |-> db,
             reads |-> reads, extracted |-> extracted]
        Err(x, reads, extracted) == Fail(x, "", reads, extracted)
        Done(event, d, reads, extracted) ==
            [ok |-> TRUE, err |-> "", asset_err |-> "", event |-> event, db |-> d,
             reads |-> reads, extracted |-> extracted]
        collection == FindById(db.collections, key.id)
        collection_mint == FindById(db.collection_mints, key.id)
        compression_leaf == FindById(db.compression_leafs, key.id)
        nonce == extract_compression_nonce(e.confirmed)
        asset_id == GetAssetId(Unwrap(compression_leaf).merkle_tree, nonce.nonce)
        leaf == [Unwrap(compression_leaf) EXCEPT !.asset_id = Some(asset_id)]
    IN  CASE kind \in CreateKinds \cup RetryCreateKinds ->
               IF ~ParseUuidOk(key.id) THEN Err("InvalidUuid", {}, FALSE)
               ELSE IF ~ReadOk(e) THEN Err("DbError", {"collections"}, FALSE)
               ELSE IF ~IsSome(collection) THEN Err("RecordNotFound", {"collections"}, FALSE)
               ELSE Done(CompletedMint(kind, signature, Unwrap(collection).mint), db,
                         {"collections"}, FALSE)
          [] kind = "MintToCollection" ->
               IF ~ParseUuidOk(key.id) THEN Err("InvalidUuid", {}, FALSE)
               ELSE IF ~ReadOk(e) THEN Err("DbError", {"collection_mints"}, FALSE)
               ELSE IF IsSome(compression_leaf) THEN
                   IF ~nonce.ok
                   THEN Fail("AssetId", nonce.err, {"collection_mints", "compression_leafs"}, TRUE)
                   ELSE IF ~WriteOk(e)
                   THEN Err("DbError", {"collection_mints", "compression_leafs"}, TRUE)
                   ELSE Done(CompletedMint(kind, signature, asset_id),
                             [db EXCEPT !.compression_leafs = Put(@, key.id, leaf)],
                             {"collection_mints", "compression_leafs"}, TRUE)
               ELSE IF ~IsSome(collection_mint)
               THEN Err("RecordNotFound", {"collection_mints", "compression_leafs"}, FALSE)
               ELSE Done(CompletedMint(kind, signature, Unwrap(collection_mint).mint), db,
                         {"collection_mints", "compression_leafs"}, FALSE)
          [] kind \in {"MintEditionDrop", "RetryMintEditionDrop", "MintOpenDrop"}
                      \cup RetryMintToKinds ->
               IF ~ParseUuidOk(key.id) THEN Err("InvalidUuid", {}, FALSE)
               ELSE IF ~ReadOk(e) THEN Err("DbError", {"collection_mints"}, FALSE)
               ELSE IF ~IsSome(collection_mint)
               THEN Err("RecordNotFound", {"collection_mints"}, FALSE)
               ELSE Done(CompletedMint(kind, signature, Unwrap(collection_mint).mint), db,
                         {"collection_mints"}, FALSE)
          [] OTHER -> Done(CompletedUpdate(kind, signature), db, {}, FALSE)

\* Processor::event_submitted: the success event is sent only when
\* into_success returns Ok
event_submitted(kind, db, key, sig, e) ==
    LET s == into_success(kind, db, key, sig, e)
    IN  [ok |-> s.ok, err |-> s.err, asset_err |-> s.asset_err, db |-> s.db, reads |-> s.reads,
         extracted |-> s.extracted,
         sent |-> IF s.ok THEN <<Send(s.event, key)>> ELSE << >>]

\* What a handler did, for the message handled last.
Trace(asm, result, err, asset_err, src, sends, submit, sig, reads, extracted, calls) ==
    [asm |-> asm,             \* assembly: "ok", "err" or "none" (signed topic)
     result |-> result,       \* what process returned: "Ok" or "Err"
     err |-> err,             \* the ProcessorErrorKind of a failure
     asset_err |-> asset_err, \* the SolanaAssetIdError inside an AssetId failure
     src |-> src,             \* the ErrorSource of a returned error
     sends |-> sends,         \* send_transaction calls
     submit |-> submit,       \* submit_transaction: "ok", "err" or "none"
     sig |-> sig,             \* the signature the RPC returned
     reads |-> reads,         \* tables into_success read
     extracted |-> extracted, \* extract_compression_nonce was called
     calls |-> calls,         \* backend methods the intent handler called
     asset_api |-> << >>]     \* asset API methods the builder called
NoTrace == Trace("none", "Ok", "", "", "", 0, "none", None, {}, FALSE, << >>)

\* Processor::process_nft, the match on the assembly result r: the events
\* sent and the trace
Assembled(kind, key, r) ==
    IF r.ok
    THEN [db |-> r.db, keys |-> r.keys,
          sent |-> <<Send(into_sign_request(kind, r.tx), key)>>,
          trace |-> [Trace("ok", "Ok", "", "", "", 0, "none", None, {}, FALSE, r.calls)
                        EXCEPT !.asset_api = r.asset_api]]
    ELSE [db |-> r.db, keys |-> r.keys,
          sent |-> event_failed(kind, key, "Assemble"),
          trace |-> [Trace("err", "Ok", r.err, "", "", 0, "none", None, {}, FALSE, r.calls)
                        EXCEPT !.asset_api = r.asset_api]]

\* process_nft with the failure event dropped
process_nft_silent(kind, db, k, key, p, e) ==
    [Assembled(kind, key, Assemble(kind, db, k, key, p, e)) EXCEPT
        !.sent = IF Len(@) = 1 /\ @[1].event.event = "Failed" THEN << >> ELSE @]

\* Processor::process_nft
process_nft(kind, db, k, key, p, e) ==
    Assembled(kind, key, Assemble(kind, db, k, key, p, e))

\* process_treasury with the status check on the wrong variant
process_treasury_pending(kind, db, key, res, e) ==
    LET status == TransactionStatusFromI32(res.status)
        sub == submit_transaction(res, e)
        s == event_submitted(kind, db, key, Unwrap(sub.sig), e)
    IN  IF ~IsSome(status)
        THEN [db |-> db, sent |-> << >>,
              trace |-> Trace("none", "Err", "TransactionStatusNotFound", "", "TreasuryStatus",
                              0, "none", None, {}, FALSE, << >>)]
        ELSE IF Unwrap(status) = "Pending"
        THEN [db |-> db, sent |-> event_failed(kind, key, "Sign"),
              trace |-> Trace("none", "Ok", "", "", "", 0, "none", None, {}, FALSE, << >>)]
        ELSE IF ~sub.ok
        THEN [db |-> db, sent |-> event_failed(kind, key, "Submit"),
              trace |-> Trace("none", "Ok", "", "", "", sub.sends, "err", None, {}, FALSE, << >>)]
        ELSE [db |-> s.db, sent |-> s.sent,
              trace |-> Trace("none", IF s.ok THEN "Ok" ELSE "Err", s.err, s.asset_err,
                              IF s.ok THEN "" ELSE "TreasurySuccess",
                              sub.sends, "ok", sub.sig, s.reads, s.extracted, << >>)]

\* Processor::process_treasury
process_treasury(kind, db, key, res, e) ==
    LET status == TransactionStatusFromI32(res.status)
        sub == submit_transaction(res, e)
        s == event_submitted(kind, db, key, Unwrap(sub.sig), e)
    IN  IF ~IsSome(status)
        THEN [db |-> db, sent |-> << >>,
              trace |-> Trace("none", "Err", "TransactionStatusNotFound", "", "TreasuryStatus",
                              0, "none", None, {}, FALSE, << >>)]
        ELSE IF Unwrap(status) = "Failed"
        THEN [db |-> db, sent |-> event_failed(kind, key, "Sign"),
              trace |-> Trace("none", "Ok", "", "", "", 0, "none", None, {}, FALSE, << >>)]
        ELSE IF ~sub.ok
        THEN [db |-> db, sent |-> event_failed(kind, key, "Submit"),
              trace |-> Trace("none", "Ok", "", "", "", sub.sends, "err", None, {}, FALSE, << >>)]
        ELSE [db |-> s.db, sent |-> s.sent,
              trace |-> Trace("none", IF s.ok THEN "Ok" ELSE "Err", s.err, s.asset_err,
                              IF s.ok THEN "" ELSE "TreasurySuccess",
                              sub.sends, "ok", sub.sig, s.reads, s.extracted, << >>)]

----------------------------------------------------------------------------
(* Bus messages and the environment of one message *)

Key(id) == [id |-> id, user_id |-> "user", project_id |-> "project"]

Owners == {WalletA, BadAddress}

Payload(collection_id, mint_id, compressed, owner_address) ==
    [collection_id |-> collection_id, mint_id |-> mint_id, compressed |-> compressed,
     owner_address |-> owner_address, recipient_address |-> WalletB]

\* The payloads of an intent of the given kind: the fields its handler reads
\* range over their values, the others are fixed.
IntentPayloads(kind) ==
    CASE kind \in MintToKinds ->
            {Payload(c, 1, z, o) : c \in Ids, z \in BOOLEAN, o \in Owners}
      [] kind \in RetryMintToKinds ->
            {Payload(1, 1, z, o) : z \in BOOLEAN, o \in Owners}
      [] kind = "MintEditionDrop" ->
            {Payload(c, 1, FALSE, o) : c \in Ids, o \in Owners}
      [] kind = "TransferAsset" ->
            {Payload(1, m, FALSE, o) : m \in Ids, o \in Owners}
      [] kind = "UpdateCollectionMint" ->
            {Payload(c, m, FALSE, o) : c \in Ids, m \in Ids, o \in Owners}
      [] kind = "SwitchMintCollection" ->
            {Payload(c, m, FALSE, WalletA) : c \in Ids, m \in Ids}
      [] kind = "RetryUpdateCollectionMint" ->
            {Payload(1, 1, FALSE, WalletA)}
      [] OTHER ->
            {Payload(1, 1, FALSE, o) : o \in Owners}

\* SolanaTransactionResult
Result(status, signatures, message) ==
    [status |-> status, signed_message_signatures |-> signatures,
     serialized_message |-> message]

TxSignature == Addr("signature", 1, 0)
SignedMessage == Message("signed", Payer, << >>, << >>, 1)
Corrupt == [NoMessage EXCEPT !.op = "corrupt"]

\* Signed results: a well-formed one and one for each way of being malformed.
Results(status) ==
    {Result(status, <<TxSignature>>, Some(SignedMessage)),
     Result(status, <<BadAddress>>, Some(SignedMessage)),
     Result(status, <<TxSignature>>, None),
     Result(status, <<TxSignature>>, Some(Corrupt))}

\* The well-formed signed result
WellFormed(res) ==
    /\ res.signed_message_signatures = <<TxSignature>>
    /\ res.serialized_message = Some(SignedMessage)

\* status values on the wire: the three defined ones and an undefined one
Statuses == {0, 1, 2, 3}

\* Responses of get_transaction for a submitted compressed mint
Ins(form, data, index) == [form |-> form, data |-> data, index |-> index]
Cpi == Ins("compiled", "appdata", 0)
Confirmed(rpc_ok, meta, inner) == [rpc_ok |-> rpc_ok, meta |-> meta, inner_instructions |-> inner]
Nonces == {0, 5}
ConfirmedTxs ==
    {Confirmed(FALSE, FALSE, None),
     Confirmed(TRUE, FALSE, None),
     Confirmed(TRUE, TRUE, None),
     Confirmed(TRUE, TRUE, Some(<< >>)),
     Confirmed(TRUE, TRUE, Some(<< <<Cpi, Cpi, Cpi>> >>)),
     Confirmed(TRUE, TRUE, Some(<< <<Cpi, Cpi, Cpi, Ins("parsed", "changelog", 0)>> >>)),
     Confirmed(TRUE, TRUE, Some(<< <<Cpi, Cpi, Cpi, Ins("compiled", "notbase58", 0)>> >>)),
     Confirmed(TRUE, TRUE, Some(<< <<Cpi, Cpi, Cpi, Ins("compiled", "notborsh", 0)>> >>)),
     Confirmed(TRUE, TRUE, Some(<< <<Cpi, Cpi, Cpi, Cpi>> >>)),
     Confirmed(TRUE, TRUE, Some(<< <<Cpi, Cpi, Ins("compiled", "changelog", 5), Cpi>> >>)),
     Confirmed(TRUE, TRUE, Some(<< <<Cpi, Cpi, Cpi>>,
                                   <<Cpi, Cpi, Cpi, Ins("compiled", "changelog", 5)>> >>))}
    \cup {Confirmed(TRUE, TRUE, Some(<< <<Cpi, Cpi, Cpi, Ins("compiled", "changelog", n)>> >>)) :
            n \in Nonces}
Unconfirmed == Confirmed(FALSE, FALSE, None)

DbStates == {"up", "readonly", "down"}
Env(rpc_up, db, confirmed, blockhash) ==
    [rpc_up |-> rpc_up, db |-> db, confirmed |-> confirmed, blockhash |-> blockhash,
     failures |-> 0]
NoEnv == Env(TRUE, "up", Unconfirmed, 0)

Intent(kind, key, p) == [topic |-> "nfts", kind |-> kind, key |-> key, payload |-> p,
                         res |-> Result(0, << >>, None)]
Signed(kind, key, res) == [topic |-> "treasury", kind |-> kind, key |-> key,
                           payload |-> Payload(1, 1, FALSE, WalletA), res |-> res]
NoMsg == [topic |-> "none", kind |-> "", key |-> Key(BadUuid),
          payload |-> Payload(1, 1, FALSE, WalletA), res |-> Result(0, << >>, None)]

\* The feed has reported nothing.
NoGeyser == [slot |-> 1, received |-> 0, mint |-> None, owner |-> None]

\* No builder has been called.
\* No import has been started; uuid counts the ids generated so far, which
\* lie beyond the ids of the bus keys.
NoImport == [pc |-> "idle", page |-> 0, collection |-> None, pages |-> << >>,
             assets |-> << >>, uuid |-> 2]

NoBuilt == [backend |-> "none", ok |-> FALSE, tx |-> NoTx, client_error |-> FALSE]

----------------------------------------------------------------------------
(* The consumer loop: one message is received and handled, then the next *)

Init ==
    /\ collections = EmptyTable
    /\ collection_mints = EmptyTable
    /\ compression_leafs = EmptyTable
    /\ update_revisions = EmptyTable
    /\ nextKey = 1
    /\ handled = 0
    /\ msg = NoMsg
    /\ env = NoEnv
    /\ out = << >>
    /\ trace = NoTrace
    /\ built = NoBuilt
    /\ geyser = NoGeyser
    /\ dashmap = << >>
    /\ tasks = << >>
    /\ produced = << >>
    /\ importer = NoImport
    /\ signing = {}

SetDb(db) ==
    /\ collections' = db.collections
    /\ collection_mints' = db.collection_mints
    /\ compression_leafs' = db.compression_leafs
    /\ update_revisions' = db.update_revisions

\* Processor::process, Services::Nfts(key, msg).  The chain advances between
\* two messages: each message sees a latest blockhash of its own.
ProcessNfts ==
    /\ msg = NoMsg
    /\ handled < MaxMsgs
    /\ \E kind \in EventKind, id \in KeyIds, rpc_up \in BOOLEAN, d \in DbStates :
         \E p \in IntentPayloads(kind) :
         \E e \in {Env(rpc_up, d, Unconfirmed, handled + 1)} :
         \E r \in {process_nft(kind, Db, nextKey, Key(id), p, e)} :
                /\ SetDb(r.db)
                /\ nextKey' = nextKey + r.keys
                /\ msg' = Intent(kind, Key(id), p)
                /\ env' = e
                /\ out' = r.sent
                /\ trace' = r.trace
    /\ handled' = handled + 1
    /\ UNCHANGED <<built, importer, signing, indexerVars>>

\* Processor::process, Services::Treasury(key, msg).  The fields of the result
\* and of the environment that cannot matter to the handler are fixed: the
\* confirmed transaction ranges over ConfirmedTxs for a submitted mint whose
\* id has a compression leaf.
ProcessTreasury ==
    /\ msg = NoMsg
    /\ handled < MaxMsgs
    /\ \E kind \in EventKind, id \in KeyIds, status \in Statuses :
         LET submits == IsSome(TransactionStatusFromI32(status))
                        /\ TransactionStatusFromI32(status) # Some("Failed")
         IN
         \E res \in IF submits THEN Results(status)
                               ELSE {Result(status, <<TxSignature>>, Some(SignedMessage))} :
         \E rpc_up \in IF submits /\ WellFormed(res) THEN BOOLEAN ELSE {TRUE} :
         \E d \in IF submits /\ rpc_up /\ WellFormed(res) THEN DbStates ELSE {"up"} :
         \E c \in IF submits /\ rpc_up /\ kind \in MintToKinds /\ d # "down"
                     /\ WellFormed(res)
                     /\ id \in DOMAIN compression_leafs
                  THEN ConfirmedTxs ELSE {Unconfirmed} :
         \E e \in {Env(rpc_up, d, c, handled + 1)} :
         \E r \in {process_treasury(kind, Db, Key(id), res, e)} :
                /\ SetDb(r.db)
                /\ msg' = Signed(kind, Key(id), res)
                /\ env' = e
                /\ out' = r.sent
                /\ trace' = r.trace
    /\ nextKey' = nextKey
    /\ handled' = handled + 1
    /\ UNCHANGED <<built, importer, signing, indexerVars>>

\* The consumer moves on to the next message.
NextMessage ==
    /\ msg # NoMsg
    /\ msg' = NoMsg
    /\ env' = NoEnv
    /\ out' = << >>
    /\ trace' = NoTrace
    /\ UNCHANGED <<collections, collection_mints, compression_leafs, update_revisions,
                   nextKey, handled, built, importer, signing, indexerVars>>

Next == ProcessNfts \/ ProcessTreasury \/ NextMessage

Spec == Init /\ [][Next]_vars

----------------------------------------------------------------------------
(* The event processor with the treasury in the loop: the treasury answers   *)
(* a signing request on the signed topic, under the key of the request and   *)
(* with the message of the request, at any later time; intents for the same  *)
(* id may be handled in between.                                             *)

\* the kinds whose Submitted event carries a mint address
SigningKinds ==
    {"CreateCollection", "RetryCreateCollection",
     "MintToCollection", "RetryMintToCollection"}

\* Processor::process, Services::Nfts(key, msg), for a create or a mint: a
\* signing request that was sent is with the treasury from then on.
RequestSigning ==
    /\ msg = NoMsg
    /\ handled < MaxMsgs
    /\ \E kind \in SigningKinds, id \in Ids, rpc_up \in BOOLEAN :
         \E p \in {Payload(1, 1, FALSE, WalletA)} :
         \E e \in {Env(rpc_up, "up", Unconfirmed, handled + 1)} :
         \E r \in {process_nft(kind, Db, nextKey, Key(id), p, e)} :
                /\ SetDb(r.db)
                /\ nextKey' = nextKey + r.keys
                /\ msg' = Intent(kind, Key(id), p)
                /\ env' = e
                /\ out' = r.sent
                /\ trace' = r.trace
                /\ signing' = IF r.trace.asm = "ok"
                               THEN signing \cup {[kind |-> kind, key |-> Key(id),
                                                   tx |-> r.sent[1].event.tx]}
                               ELSE signing
    /\ handled' = handled + 1
    /\ UNCHANGED <<built, importer, indexerVars>>

\* Processor::process, Services::Treasury(key, msg), for the answer to one of
\* the requests: signed (status Ok) or refused (status Failed).
SignedResult ==
    /\ msg = NoMsg
    /\ handled < MaxMsgs
    /\ \E q \in signing, status \in {1, 2}, rpc_up \in BOOLEAN :
         \E res \in {Result(status, <<TxSignature>>, Some(q.tx.serialized_message))} :
         \E e \in {Env(rpc_up, "up", Unconfirmed, handled + 1)} :
         \E r \in {process_treasury(q.kind, Db, q.key, res, e)} :
                /\ SetDb(r.db)
                /\ msg' = Signed(q.kind, q.key, res)
                /\ env' = e
                /\ out' = r.sent
                /\ trace' = r.trace
                /\ signing' = signing \ {q}
    /\ nextKey' = nextKey
    /\ handled' = handled + 1
    /\ UNCHANGED <<built, importer, indexerVars>>

NextSigning == RequestSigning \/ SignedResult \/ NextMessage

SpecSigning == Init /\ [][NextSigning]_vars

----------------------------------------------------------------------------
(* The assembly backends on their own: each builder is applied to payloads,  *)
(* rows and RPC states drawn from small sets.  The rows are those the intent *)
(* handlers store.                                                           *)

EmptyDb == [collections |-> EmptyTable, collection_mints |-> EmptyTable,
            compression_leafs |-> EmptyTable, update_revisions |-> EmptyTable]

\* Owner addresses: the treasury wallet itself, other wallets, and a string
\* that is not an address.
Wallets == {Payer, WalletA, WalletB}
BuildPayloads == {Payload(1, 1, FALSE, o) : o \in Wallets \cup {BadAddress}}
\* The endpoint is down, or answers at once, or answers after some failures
\* within the retries, or after more failures than the retries
BuildEnvs ==
    {[Env(r, "up", Unconfirmed, b) EXCEPT !.failures = n] :
        r \in BOOLEAN, b \in 1..MaxBlockhash, n \in 0..MaxFailures \cup {MaxTimes + 1}}
StoreEnv == Env(TRUE, "up", Unconfirmed, 1)

SampleDbs ==
    {create_collection(EmptyDb, k, Key(1), Payload(1, 1, FALSE, o), StoreEnv).db :
        k \in 1..MaxKeys, o \in Wallets}
SampleCollections == {d.collections[1] : d \in SampleDbs}
SampleMints ==
    {mint_to_collection(d, MaxKeys + 1, Key(1), Payload(1, 1, FALSE, WalletA),
                        StoreEnv).db.collection_mints[1] : d \in SampleDbs}
SampleLeafs ==
    LET rows == {mint_to_collection(d, MaxKeys + 1, Key(1), Payload(1, 1, TRUE, WalletA),
                                    StoreEnv).db.compression_leafs[1] : d \in SampleDbs}
    IN  rows \cup {[r EXCEPT !.asset_id = Some(GetAssetId(r.merkle_tree, n))] :
                      r \in rows, n \in Nonces}
SampleRevisions ==
    {update_collection_mint([d EXCEPT !.collection_mints = Put(@, 1, m)], 1, Key(2),
                            Payload(1, 1, FALSE, o), StoreEnv).db.update_revisions[2] :
        d \in SampleDbs, m \in SampleMints, o \in Wallets}

Built(r, e) ==
    /\ built' = [backend |-> r.backend, ok |-> r.ok, tx |-> r.tx,
                 client_error |-> r.client_error]
    /\ env' = e
    /\ UNCHANGED <<collections, collection_mints, compression_leafs, update_revisions,
                   nextKey, handled, msg, out, trace, importer, signing, indexerVars>>

BuildCreate ==
    \E p \in BuildPayloads, k \in 1..MaxKeys, e \in BuildEnvs : Built(Create(p, k, e), e)
BuildUpdate ==
    \E c \in SampleCollections, p \in BuildPayloads, e \in BuildEnvs : Built(Update(c, p, e), e)
BuildUpdateMint ==
    \E c \in SampleCollections, m \in SampleMints, p \in BuildPayloads, e \in BuildEnvs :
        Built(UpdateMint(c, m, p, e), e)
BuildRetryUpdateMint ==
    \E r \in SampleRevisions, e \in BuildEnvs : Built(RetryUpdateMint(r, e), e)
BuildSwitch ==
    \E m \in SampleMints, c \in SampleCollections, n \in SampleCollections, e \in BuildEnvs :
        Built(Switch(m, c, n, e), e)
BuildMintEdition ==
    \E c \in SampleCollections, p \in BuildPayloads, k \in 1..MaxKeys, e \in BuildEnvs :
        Built(MintEdition(c, p, k, e), e)
BuildMintUncompressed ==
    \E c \in SampleCollections, p \in BuildPayloads, k \in 1..MaxKeys, e \in BuildEnvs :
        Built(MintUncompressed(c, p, k, e), e)
BuildMintCompressed ==
    \E c \in SampleCollections, p \in BuildPayloads, e \in BuildEnvs :
        Built(MintCompressed(c, p, e), e)
BuildTransferUncompressed ==
    \E m \in SampleMints, p \in BuildPayloads, e \in BuildEnvs :
        Built(TransferUncompressed(m, p, e), e)
BuildTransferCompressed ==
    \E l \in SampleLeafs, p \in BuildPayloads, e \in BuildEnvs :
        Built(TransferCompressed(l, p, e), e)

NextBuilders ==
    \/ BuildCreate
    \/ BuildUpdate
    \/ BuildUpdateMint
    \/ BuildRetryUpdateMint
    \/ BuildSwitch
    \/ BuildMintEdition
    \/ BuildMintUncompressed
    \/ BuildMintCompressed
    \/ BuildTransferUncompressed
    \/ BuildTransferCompressed

SpecBuilders == Init /\ [][NextBuilders]_vars

----------------------------------------------------------------------------
(* At-least-once delivery: the bus may hand the intent just handled to the   *)
(* consumer once more; the processor keeps no record of the keys it has      *)
(* handled.                                                                  *)

\* Processor::process on the intent it has just handled
Redeliver ==
    /\ msg.topic = "nfts"
    /\ handled < MaxMsgs
    /\ \E rpc_up \in BOOLEAN, d \in DbStates :
         \E e \in {Env(rpc_up, d, Unconfirmed, handled + 1)} :
         \E r \in {process_nft(msg.kind, Db, nextKey, msg.key, msg.payload, e)} :
                /\ SetDb(r.db)
                /\ nextKey' = nextKey + r.keys
                /\ env' = e
                /\ out' = r.sent
                /\ trace' = r.trace
    /\ handled' = handled + 1
    /\ UNCHANGED <<msg, built, importer, signing, indexerVars>>

NextRedelivery == ProcessNfts \/ Redeliver \/ NextMessage

SpecRedelivery == Init /\ [][NextRedelivery]_vars

----------------------------------------------------------------------------
(* The indexer (indexer/src/handler.rs): the gRPC feed reports the         *)
(* transactions of a slot and then the slot; MessageHandler buffers the     *)
(* transactions by slot and, when the slot is reported, spawns one          *)
(* process_transaction task for each.  A task runs up to its next await,    *)
(* where the runtime may run any other task.                                *)

MaxFeed == 2    \* transactions the feed reports
MaxSlot == 2    \* slots the feed reports

WalletC == Addr("wallet", 3, 0)
Holders == {WalletA, WalletB, WalletC}
ForeignMint == Addr("key", 0, 0)    \* a mint the service does not manage

\* spl_token::state::Account::unpack of the account at an associated token
\* address: the wallet and the mint the address was derived from.
TokenAccount(ata) == [owner |-> Addr("wallet", ata.o, 0), mint |-> Addr("key", ata.n, 0)]

\* An instruction of the token program.  The accounts of Transfer are
\* source, destination, authority; those of TransferChecked are source,
\* mint, destination, authority.
Instruction(kind, amount, accounts) == [kind |-> kind, amount |-> amount, accounts |-> accounts]
TransferIns(kind, amount, owner, recipient, mint) ==
    LET source == GetAssociatedTokenAddress(owner, mint)
        destination == GetAssociatedTokenAddress(recipient, mint)
    IN  Instruction(kind, amount,
                    IF kind = "TransferChecked" THEN <<source, mint, destination, owner>>
                    ELSE <<source, destination, owner>>)

\* mpl_bubblegum Transfer{root, data_hash, creator_hash, nonce, index} with
\* its accounts: tree_authority, leaf_owner, leaf_delegate, new_leaf_owner,
\* merkle_tree
BubblegumTransfer(nonce, owner, to, tree) ==
    [kind |-> "BubblegumTransfer", amount |-> 0, nonce |-> nonce,
     accounts |-> <<TreeAuthority, owner, owner, to, tree>>]

\* The program of an instruction (the account at its program_id_index)
ProgramId(ins) == IF ins.kind = "BubblegumTransfer" THEN "mpl_bubblegum" ELSE "spl_token"

\* A transaction: its slot, its signature and its outer instructions
Tx(slot, n, instructions) ==
    [slot |-> slot, signature |-> Addr("signature", n, 0), instructions |-> instructions]
TokenTx(slot, n, kind, amount, accounts) == Tx(slot, n, <<Instruction(kind, amount, accounts)>>)
TransferTx(slot, n, kind, owner, recipient, mint) ==
    Tx(slot, n, <<TransferIns(kind, 1, owner, recipient, mint)>>)

\* The transactions the chain can finalize next, each with the owner of the
\* managed mint after it: the owner transfers the mint, the owner approves a
\* delegate, or some other token moves.
FeedTxs(g) ==
    LET owner == Unwrap(g.owner)
        mint == Unwrap(g.mint)
        n == g.received + 1
    IN  {<<TransferTx(g.slot, n, kind, owner, to, mint), to>> :
            kind \in {"Transfer", "TransferChecked"}, to \in Holders \ {owner}}
        \cup {<<TokenTx(g.slot, n, "Approve", 1,
                        <<GetAssociatedTokenAddress(owner, mint), WalletC, owner>>), owner>>}
        \cup {<<TransferTx(g.slot, n, "Transfer", WalletA, WalletB, ForeignMint), owner>>}

Bucket(slot) == IF slot \in DOMAIN dashmap THEN dashmap[slot] ELSE << >>

\* A spawned process_transaction: the transaction, the instruction the loop
\* is at, the await it stands at, the row find_by_ata returned and the
\* account fetch_account returned.
Task(tx) == [tx |-> tx, ip |-> 1, pc |-> "find", mint |-> None, acct |-> None]

\* transfer_info: the amount and the index of the destination of a
\* TransferChecked (2) or a Transfer (1), nothing for any other instruction
TransferInfo(ins) ==
    IF ins.kind = "TransferChecked" THEN Some(<<ins.amount, 2>>)
    ELSE IF ins.kind = "Transfer" THEN Some(<<ins.amount, 1>>)
    ELSE None

\* The loop over the instructions from the one at `from`: the first
\* instruction of the token program whose transfer_info is Some((1, _)), 0
\* when the loop ends without one.
RECURSIVE NextTransfer(_, _)
NextTransfer(instructions, from) ==
    IF from > Len(instructions) THEN 0
    ELSE IF ProgramId(instructions[from]) = "spl_token"
            /\ IsSome(TransferInfo(instructions[from]))
            /\ Unwrap(TransferInfo(instructions[from]))[1] = 1
         THEN from
         ELSE NextTransfer(instructions, from + 1)

\* the destination read at account index 1 whatever the instruction
DestinationAtaIndex_one(ins) == 1

\* TransferChecked has its destination at account index 2, Transfer at 1
DestinationAtaIndex(ins) == Unwrap(TransferInfo(ins))[2]
Source(ins) == ins.accounts[1]
Destination(ins) == ins.accounts[DestinationAtaIndex(ins) + 1]

\* CollectionMint::find_by_ata: one of the rows with the address, if any
FindByAta(table, ata) ==
    LET ids == {id \in DOMAIN table : table[id].associated_token_account = ata}
    IN  IF ids = {} THEN {None} ELSE {Some(table[id]) : id \in ids}

\* CollectionMint::update_owner_and_ata: the two columns of the row with the
\* model's id are written.
update_owner_and_ata(table, model, owner, ata) ==
    [table EXCEPT ![model.id].owner = owner, ![model.id].associated_token_account = ata]

\* SolanaNftEvents { UpdateMintOwner } under the key of the mint's id
UpdateMintOwner(mint, acct, sig) ==
    [key |-> [id |-> mint.id, user_id |-> "", project_id |-> ""],
     event |-> [event |-> "UpdateMintOwner",
                mint_address |-> acct.mint,
                sender |-> mint.owner,
                recipient |-> acct.owner,
                tx_signature |-> sig]]

consumerVars == <<collections, compression_leafs, update_revisions,
                  nextKey, handled, msg, env, out, trace, built, importer, signing>>

\* The rows the indexer starts with: a collection and a mint of it, as
\* create_collection and mint_to_collection store them.
StoredDb ==
    LET p == Payload(1, 1, FALSE, WalletA)
        d == create_collection(EmptyDb, 1, Key(1), p, StoreEnv).db
    IN  mint_to_collection(d, 2, Key(1), p, StoreEnv).db

InitIndexer ==
    /\ collections = StoredDb.collections
    /\ collection_mints = StoredDb.collection_mints
    /\ geyser = [slot |-> 1, received |-> 0,
                 mint |-> Some(StoredDb.collection_mints[1].mint),
                 owner |-> Some(StoredDb.collection_mints[1].owner)]
    /\ compression_leafs = EmptyTable
    /\ update_revisions = EmptyTable
    /\ nextKey = 3
    /\ handled = 0
    /\ msg = NoMsg
    /\ env = NoEnv
    /\ out = << >>
    /\ trace = NoTrace
    /\ built = NoBuilt
    /\ dashmap = << >>
    /\ tasks = << >>
    /\ produced = << >>
    /\ importer = NoImport
    /\ signing = {}

\* handle_message, UpdateOneof::Transaction: the transaction joins the
\* bucket of its slot.
HandleTransaction ==
    /\ geyser.received < MaxFeed
    /\ geyser.slot <= MaxSlot
    /\ \E f \in FeedTxs(geyser) :
          /\ dashmap' = Put(dashmap, f[1].slot, Append(Bucket(f[1].slot), f[1]))
          /\ geyser' = [geyser EXCEPT !.received = @ + 1, !.owner = Some(f[2])]
    /\ UNCHANGED <<collection_mints, tasks, produced, consumerVars>>

\* handle_message, UpdateOneof::Slot, had it read the bucket with get and
\* left it in the map
HandleSlot_keep ==
    /\ geyser.slot <= MaxSlot
    /\ tasks' = tasks \o [i \in 1..Len(Bucket(geyser.slot)) |-> Task(Bucket(geyser.slot)[i])]
    /\ geyser' = [geyser EXCEPT !.slot = @ + 1]
    /\ UNCHANGED <<dashmap, collection_mints, produced, consumerVars>>

\* handle_message, UpdateOneof::Slot: the bucket of the slot is removed and a
\* task is spawned for each of its transactions, in the order received.
HandleSlot ==
    /\ geyser.slot <= MaxSlot
    /\ tasks' = tasks \o [i \in 1..Len(Bucket(geyser.slot)) |-> Task(Bucket(geyser.slot)[i])]
    /\ dashmap' = [s \in DOMAIN dashmap \ {geyser.slot} |-> dashmap[s]]
    /\ geyser' = [geyser EXCEPT !.slot = @ + 1]
    /\ UNCHANGED <<collection_mints, produced, consumerVars>>

\* process_transaction up to the answer of find_by_ata
TaskFind(i) ==
    LET t == tasks[i]
    IN  /\ t.pc = "find"
        /\ \E ip \in {NextTransfer(t.tx.instructions, t.ip)} :
              IF ip = 0
              THEN tasks' = [tasks EXCEPT ![i].pc = "done"]
              ELSE \E db_ok \in BOOLEAN :
                     IF ~db_ok THEN tasks' = [tasks EXCEPT ![i].pc = "failed", ![i].ip = ip]
                     ELSE \E found \in FindByAta(collection_mints,
                                                 Source(t.tx.instructions[ip])) :
                            IF ~IsSome(found)
                            THEN tasks' = [tasks EXCEPT ![i].pc = "done", ![i].ip = ip]
                            ELSE tasks' = [tasks EXCEPT ![i].pc = "fetch", ![i].ip = ip,
                                                        ![i].mint = found]
        /\ UNCHANGED <<collection_mints, geyser, dashmap, produced, consumerVars>>

\* fetch_account(destination) and Account::unpack
TaskFetch(i) ==
    LET t == tasks[i]
    IN  /\ t.pc = "fetch"
        /\ \E rpc_ok \in BOOLEAN :
              IF ~rpc_ok THEN tasks' = [tasks EXCEPT ![i].pc = "failed"]
              ELSE tasks' = [tasks EXCEPT ![i].pc = "update",
                                          ![i].acct =
                                             Some(TokenAccount(Destination(t.tx.instructions[t.ip])))]
        /\ UNCHANGED <<collection_mints, geyser, dashmap, produced, consumerVars>>

\* CollectionMint::update_owner_and_ata(mint, new_owner, destination)
TaskUpdate(i) ==
    LET t == tasks[i]
    IN  /\ t.pc = "update"
        /\ \E db_ok \in BOOLEAN :
              IF ~db_ok
              THEN /\ tasks' = [tasks EXCEPT ![i].pc = "failed"]
                   /\ UNCHANGED collection_mints
              ELSE /\ collection_mints' =
                          update_owner_and_ata(collection_mints, Unwrap(t.mint),
                                               Unwrap(t.acct).owner,
                                               Destination(t.tx.instructions[t.ip]))
                   /\ tasks' = [tasks EXCEPT ![i].pc = "send"]
        /\ UNCHANGED <<geyser, dashmap, produced, consumerVars>>

\* producer.send(UpdateMintOwner); the loop goes on to the next instruction
TaskSend(i) ==
    LET t == tasks[i]
    IN  /\ t.pc = "send"
        /\ \E send_ok \in BOOLEAN :
              IF ~send_ok
              THEN /\ tasks' = [tasks EXCEPT ![i].pc = "failed"]
                   /\ UNCHANGED produced
              ELSE /\ produced' = Append(produced,
                          UpdateMintOwner(Unwrap(t.mint), Unwrap(t.acct), t.tx.signature))
                   /\ tasks' = [tasks EXCEPT ![i].pc = "find", ![i].ip = @ + 1]
        /\ UNCHANGED <<collection_mints, geyser, dashmap, consumerVars>>

NextIndexer ==
    \/ HandleTransaction
    \/ HandleSlot
    \/ \E i \in 1..Len(tasks) : TaskFind(i)
    \/ \E i \in 1..Len(tasks) : TaskFetch(i)
    \/ \E i \in 1..Len(tasks) : TaskUpdate(i)
    \/ \E i \in 1..Len(tasks) : TaskSend(i)

SpecIndexer == InitIndexer /\ [][NextIndexer]_vars

----------------------------------------------------------------------------
(* The indexer under the feed at large: a transaction may carry several     *)
(* instructions of the token program, a transfer may move no token, and the *)
(* feed may report a transaction of the slot in progress once more.         *)

\* Args::parallelism as the operator sets it here (-p 1; the default is 8)
Parallelism == 1

\* The holder the owner transfers to in the transactions below
NextHolder(owner) == Addr("wallet", (owner.n % 3) + 1, 0)

\* Further transactions the chain can finalize, each with the owner of the
\* managed mint after it: a transfer of amount 0; a transfer of the mint
\* after a transfer of a foreign token; a transfer of the mint after an
\* Approve; the mint moved to a holder, back, and to the holder again.
FeedBatches(g) ==
    LET owner == Unwrap(g.owner)
        mint == Unwrap(g.mint)
        n == g.received + 1
        to == NextHolder(owner)
        move == TransferIns("Transfer", 1, owner, to, mint)
    IN  {<<Tx(g.slot, n, <<TransferIns("Transfer", 0, owner, to, mint)>>), owner>>,
         <<Tx(g.slot, n, <<TransferIns("Transfer", 1, WalletA, WalletB, ForeignMint), move>>), to>>,
         <<Tx(g.slot, n, <<Instruction("Approve", 1,
                               <<GetAssociatedTokenAddress(owner, mint), WalletC, owner>>),
                           move>>), to>>,
         <<Tx(g.slot, n, <<move, TransferIns("TransferChecked", 1, to, owner, mint), move>>), to>>}

\* handle_message, UpdateOneof::Transaction, for one of the transactions above
HandleBatch ==
    /\ geyser.received < MaxFeed
    /\ geyser.slot <= MaxSlot
    /\ \E f \in FeedBatches(geyser) :
          /\ dashmap' = Put(dashmap, f[1].slot, Append(Bucket(f[1].slot), f[1]))
          /\ geyser' = [geyser EXCEPT !.received = @ + 1, !.owner = Some(f[2])]
    /\ UNCHANGED <<collection_mints, tasks, produced, consumerVars>>

\* handle_message, UpdateOneof::Transaction, for a transaction the feed has
\* reported before in the slot in progress: it joins the bucket once more.
HandleRedelivered ==
    /\ geyser.received < MaxFeed
    /\ geyser.slot <= MaxSlot
    /\ \E j \in 1..Len(Bucket(geyser.slot)) :
          dashmap' = Put(dashmap, geyser.slot,
                         Append(Bucket(geyser.slot), Bucket(geyser.slot)[j]))
    /\ geyser' = [geyser EXCEPT !.received = @ + 1]
    /\ UNCHANGED <<collection_mints, tasks, produced, consumerVars>>

NextIndexerFeed ==
    \/ HandleTransaction
    \/ HandleBatch
    \/ HandleRedelivered
    \/ HandleSlot
    \/ \E i \in 1..Len(tasks) : TaskFind(i)
    \/ \E i \in 1..Len(tasks) : TaskFetch(i)
    \/ \E i \in 1..Len(tasks) : TaskUpdate(i)
    \/ \E i \in 1..Len(tasks) : TaskSend(i)

SpecIndexerFeed == InitIndexer /\ [][NextIndexerFeed]_vars

----------------------------------------------------------------------------
(* The indexer under a feed with Bubblegum transfers.  The subscription      *)
(* asks for the transactions of spl_token and of mpl_bubblegum, and          *)
(* MessageHandler::process_transaction handles the instructions of the token *)
(* program only.  indexer/src/processor.rs has a Processor with a Bubblegum  *)
(* branch, which is constructed nowhere.                                     *)

\* The leaf index of the stored compression leaf; the other index of Nonces
\* is that of a leaf of the same tree that no row has.
StoredNonce == CHOOSE n \in Nonces : n > 0

\* The rows the indexer starts with, and a compression leaf of the
\* collection as mint_to_collection stores it and into_success completes it.
StoredLeafDb ==
    LET p == Payload(1, 1, TRUE, WalletA)
        c == Confirmed(TRUE, TRUE,
                       Some(<< <<Cpi, Cpi, Cpi, Ins("compiled", "changelog", StoredNonce)>> >>))
        d == mint_to_collection(StoredDb, 3, Key(2), p, StoreEnv).db
    IN  into_success("MintToCollection", d, Key(2), TxSignature,
                     [StoreEnv EXCEPT !.confirmed = c]).db

\* CompressionLeaf::find_by_asset_id
FindByAssetId(table, asset_id) ==
    LET ids == {id \in DOMAIN table : table[id].asset_id = Some(asset_id)}
    IN  IF ids = {} THEN None ELSE Some(table[CHOOSE id \in ids : TRUE])

\* Processor::process_mpl_bubblegum_transaction on the instructions from the
\* one at `from`, with the database and the producer answering: the rows it
\* leaves and the events it sends.  No action applies it: nothing in the
\* indexer constructs a Processor.
RECURSIVE process_mpl_bubblegum_transaction(_, _, _)
process_mpl_bubblegum_transaction(table, tx, from) ==
    IF from > Len(tx.instructions) THEN [compression_leafs |-> table, sent |-> << >>]
    ELSE LET ins == tx.instructions[from]
             new_leaf_owner == ins.accounts[3 + 1]
             merkle_tree == ins.accounts[4 + 1]
             asset_id == GetAssetId(merkle_tree, ins.nonce)
             compression_leaf == FindByAssetId(table, asset_id)
             leaf == Unwrap(compression_leaf)
             event == [key |-> [id |-> leaf.id, user_id |-> "", project_id |-> ""],
                       event |-> [event |-> "UpdateMintOwner",
                                  mint_address |-> asset_id,
                                  sender |-> leaf.leaf_owner,
                                  recipient |-> new_leaf_owner,
                                  tx_signature |-> tx.signature]]
             rest == process_mpl_bubblegum_transaction(
                         [table EXCEPT ![leaf.id].leaf_owner = new_leaf_owner], tx, from + 1)
         IN  IF ProgramId(ins) # "mpl_bubblegum"
             THEN process_mpl_bubblegum_transaction(table, tx, from + 1)
             ELSE IF ~IsSome(compression_leaf)
             THEN [compression_leafs |-> table, sent |-> << >>]
             ELSE [rest EXCEPT !.sent = <<event>> \o @]

InitBubblegum ==
    /\ collections = StoredLeafDb.collections
    /\ collection_mints = StoredLeafDb.collection_mints
    /\ compression_leafs = StoredLeafDb.compression_leafs
    /\ update_revisions = EmptyTable
    /\ geyser = [slot |-> 1, received |-> 0,
                 mint |-> Some(StoredLeafDb.collection_mints[1].mint),
                 owner |-> Some(StoredLeafDb.collection_mints[1].owner)]
    /\ nextKey = 3
    /\ handled = 0
    /\ msg = NoMsg
    /\ env = NoEnv
    /\ out = << >>
    /\ trace = NoTrace
    /\ built = NoBuilt
    /\ dashmap = << >>
    /\ tasks = << >>
    /\ produced = << >>
    /\ importer = NoImport
    /\ signing = {}

\* The Bubblegum transactions the chain can finalize next: a transfer of the
\* stored leaf or of another leaf of the tree to a holder, alone or after a
\* transfer of a foreign token.
BubblegumTxs(g) ==
    LET n == g.received + 1
    IN  {Tx(g.slot, n, <<BubblegumTransfer(nonce, from, to, MerkleTree)>>) :
            nonce \in Nonces, from \in {WalletB}, to \in {WalletA, WalletC}}
        \cup {Tx(g.slot, n, <<TransferIns("Transfer", 1, WalletA, WalletB, ForeignMint),
                              BubblegumTransfer(StoredNonce, WalletB, WalletC, MerkleTree)>>)}

\* handle_message, UpdateOneof::Transaction, for a Bubblegum transaction
HandleBubblegum ==
    /\ geyser.received < MaxFeed
    /\ geyser.slot <= MaxSlot
    /\ \E tx \in BubblegumTxs(geyser) :
          dashmap' = Put(dashmap, tx.slot, Append(Bucket(tx.slot), tx))
    /\ geyser' = [geyser EXCEPT !.received = @ + 1]
    /\ UNCHANGED <<collection_mints, tasks, produced, consumerVars>>

NextBubblegum ==
    \/ HandleTransaction
    \/ HandleBubblegum
    \/ HandleSlot
    \/ \E i \in 1..Len(tasks) : TaskFind(i)
    \/ \E i \in 1..Len(tasks) : TaskFetch(i)
    \/ \E i \in 1..Len(tasks) : TaskUpdate(i)
    \/ \E i \in 1..Len(tasks) : TaskSend(i)

SpecBubblegum == InitBubblegum /\ [][NextBubblegum]_vars

----------------------------------------------------------------------------
(* The importer (consumer/src/import.rs).  process_import reads the         *)
(* collection asset, deletes the collection row of the key's id, inserts    *)
(* the collection, and then reads the assets of the collection page by      *)
(* page, sending an event and inserting a row for each asset.               *)

MaxImports == 2   \* StartedImportingSolanaCollection messages handled
MaxPages == 1     \* full pages the asset API has for a collection
MaxItems == 2     \* items of a page the model keeps

\* process_import: const MAX_LIMIT
MAX_LIMIT == 1000

ImportedMint == Addr("key", 9, 0)    \* mint_address of the collection imported
NoOwner == Addr("", 0, 0)            \* ownership.owner of a burned asset: no bytes

Asset(n, owner) ==
    [id |-> Addr("key", n, 0), owner |-> owner, update_authority |-> WalletB]

\* the check for a burned asset left out
IsBurned_never(asset) == FALSE

\* asset.ownership.owner.0.is_empty()
IsBurned(asset) == asset.owner = NoOwner

\* The item lists a page may have: up to MaxItems assets, each held by a
\* wallet or burned.
PageItems(page) ==
    UNION {[1..n -> {WalletA, NoOwner}] : n \in 0..MaxItems}

\* searchAssets(["collection", mint_address], page): what the asset API may
\* answer.  A page that reports total = MAX_LIMIT is a full page, of which
\* the first MaxItems items are kept; the collection has at most MaxPages
\* full pages.
SearchResults(page) ==
    {[total |-> Len(owners), page |-> page,
      items |-> [i \in 1..Len(owners) |-> Asset(10 * page + i, owners[i])]] :
        owners \in PageItems(page)}
    \cup {[total |-> MAX_LIMIT, page |-> page,
           items |-> [i \in 1..MaxItems |-> Asset(10 * page + i, owners[i])]] :
             owners \in {o \in PageItems(page) : Len(o) = MaxItems /\ page <= MaxPages}}

\* Deleting a collection row with a foreign key that does not cascade
DeleteCascade_row(db, id) ==
    [db EXCEPT !.collections = [i \in DOMAIN @ \ {id} |-> @[i]]]

\* Deleting a collection row: fk-drops_collections_id (on delete cascade)
\* deletes the collection_mints rows that refer to it.
DeleteCascade(db, id) ==
    [db EXCEPT !.collections = [i \in DOMAIN @ \ {id} |-> @[i]],
               !.collection_mints =
                   [i \in {j \in DOMAIN @ : @[j].collection_id # id} |-> @[i]]]

\* index_collection: the row of the imported collection, under the id the
\* database generates (the ActiveModel leaves id unset)
ImportedCollection(id, asset) ==
    [id |-> id,
     master_edition |-> FindMasterEdition(asset.id),
     owner |-> asset.owner,
     metadata |-> FindMetadata(asset.id),
     associated_token_account |-> GetAssociatedTokenAddress(asset.owner, asset.id),
     mint |-> asset.id,
     update_authority |-> asset.update_authority]

ImportedExternalCollection(row) ==
    Send([event |-> "ImportedExternalCollection",
          mint_address |-> row.mint,
          update_authority |-> row.update_authority], Key(row.id))

\* collection_mint_event: the row of an asset under a generated uuid
ImportedMintRow(uuid, collection, asset) ==
    [id |-> uuid,
     collection_id |-> collection,
     owner |-> asset.owner,
     mint |-> asset.id,
     associated_token_account |-> GetAssociatedTokenAddress(asset.owner, asset.id)]

ImportedExternalMint(row) ==
    Send([event |-> "ImportedExternalMint",
          collection_id |-> row.collection_id,
          mint_address |-> row.mint,
          owner |-> row.owner], Key(row.id))

\* `if result.total < MAX_LIMIT { break; }`, had it been written with <=
LastPage_le(result) == result.total <= MAX_LIMIT

\* `if result.total < MAX_LIMIT { break; }`
LastPage(result) == result.total < MAX_LIMIT

\* The items of a page that are not burned, in the order of the page
RECURSIVE NotBurned(_)
NotBurned(items) ==
    IF items = << >> THEN << >>
    ELSE IF IsBurned(Head(items)) THEN NotBurned(Tail(items))
    ELSE <<Head(items)>> \o NotBurned(Tail(items))

\* buffer_unordered: the orders in which the futures of a page may complete
Orders(n) == {f \in [1..n -> 1..n] : \A i, j \in 1..n : f[i] = f[j] => i = j}

RECURSIVE PutAll(_, _)
PutAll(table, rows) ==
    IF rows = << >> THEN table
    ELSE PutAll(Put(table, Head(rows).id, Head(rows)), Tail(rows))

InitImport ==
    /\ collections = StoredDb.collections
    /\ collection_mints = StoredDb.collection_mints
    /\ compression_leafs = EmptyTable
    /\ update_revisions = EmptyTable
    /\ nextKey = 3
    /\ handled = 0
    /\ msg = NoMsg
    /\ env = NoEnv
    /\ out = << >>
    /\ trace = NoTrace
    /\ built = NoBuilt
    /\ geyser = NoGeyser
    /\ dashmap = << >>
    /\ tasks = << >>
    /\ produced = << >>
    /\ importer = NoImport
    /\ signing = {}

importFrame == <<compression_leafs, update_revisions, nextKey, env, trace, built, signing,
                 indexerVars>>

\* Processor::process for StartedImportingSolanaCollection, and process_import
\* up to index_collection: get_asset, find_by_id of the key's id, and the
\* delete of the row found.
ImportStart ==
    /\ importer.pc \in {"idle", "done", "failed"}
    /\ handled < MaxImports
    /\ handled' = handled + 1
    /\ out' = << >>
    /\ \E id \in KeyIds, rpc_ok \in BOOLEAN, d \in DbStates :
          /\ msg' = Intent("StartedImportingSolanaCollection", Key(id),
                           [mint_address |-> ImportedMint])
          /\ IF ~rpc_ok \/ ~ParseUuidOk(id) \/ d = "down"
                \/ (id \in DOMAIN collections /\ d # "up")
             THEN /\ importer' = [importer EXCEPT !.pc = "failed", !.page = 0,
                                                  !.collection = None, !.pages = << >>,
                                                  !.assets = << >>]
                  /\ UNCHANGED <<collections, collection_mints>>
             ELSE /\ importer' = [importer EXCEPT !.pc = "index", !.page = 1,
                                                  !.collection = None, !.pages = << >>,
                                                  !.assets = << >>]
                  /\ collections' = DeleteCascade(Db, id).collections
                  /\ collection_mints' = DeleteCascade(Db, id).collection_mints
    /\ UNCHANGED importFrame

\* index_collection: the metadata is fetched, the row is inserted and
\* ImportedExternalCollection is sent under the id of the row.
ImportIndex ==
    /\ importer.pc = "index"
    /\ \E outcome \in {"Ok", "Err", "SendError"} :
       \E row \in {ImportedCollection(importer.uuid + 1, Asset(ImportedMint.n, WalletA))} :
          IF outcome = "Err"
          THEN /\ importer' = [importer EXCEPT !.pc = "failed"]
               /\ UNCHANGED <<collections, out>>
          ELSE /\ collections' = Put(collections, row.id, row)
               /\ IF outcome = "SendError"
                  THEN /\ importer' = [importer EXCEPT !.pc = "failed", !.uuid = @ + 1]
                       /\ UNCHANGED out
                  ELSE /\ importer' = [importer EXCEPT !.pc = "search", !.uuid = @ + 1,
                                                       !.collection = Some(row.id)]
                       /\ out' = Append(out, ImportedExternalCollection(row))
    /\ UNCHANGED <<collection_mints, handled, msg>>
    /\ UNCHANGED importFrame

\* One turn of the loop: search_assets(page), collection_mint_event for every
\* asset that is not burned, insert_many, and the break or the next page.
\* When a future fails, the events of the futures that completed before it
\* have been sent and no row of the page is inserted.  insert_many of no row
\* is a statement without values, which the database may refuse.
ImportPage ==
    /\ importer.pc = "search"
    /\ \E rpc_ok \in BOOLEAN :
       IF ~rpc_ok
       THEN /\ importer' = [importer EXCEPT !.pc = "failed"]
            /\ UNCHANGED <<collection_mints, out>>
       ELSE
       \E result \in SearchResults(importer.page) :
       \E live \in {NotBurned(result.items)} :
       \E order \in Orders(Len(live)), completed \in 0..Len(live), insert_ok \in BOOLEAN :
       \E rows \in {[i \in 1..Len(live) |->
                        ImportedMintRow(importer.uuid + i, Unwrap(importer.collection),
                                        live[order[i]])]} :
          /\ out' = out \o [i \in 1..completed |-> ImportedExternalMint(rows[i])]
          /\ IF completed < Len(live) \/ ~insert_ok
             THEN /\ importer' = [importer EXCEPT !.pc = "failed",
                                     !.uuid = @ + Len(live),
                                     !.pages = Append(@, [page |-> result.page, total |-> result.total]),
                                     !.assets = @ \o result.items]
                  /\ UNCHANGED collection_mints
             ELSE /\ collection_mints' = PutAll(collection_mints, rows)
                  /\ importer' = [importer EXCEPT
                                     !.pc = IF LastPage(result) THEN "done" ELSE "search",
                                     !.page = IF LastPage(result) THEN @ ELSE @ + 1,
                                     !.uuid = @ + Len(live),
                                     !.pages = Append(@, [page |-> result.page, total |-> result.total]),
                                     !.assets = @ \o result.items]
    /\ UNCHANGED <<collections, handled, msg>>
    /\ UNCHANGED importFrame

NextImport == ImportStart \/ ImportIndex \/ ImportPage

SpecImport == InitImport /\ [][NextImport]_vars

\* process_import is one future that the runtime keeps polling: an import in
\* progress takes its next step.
SpecImportFair == SpecImport /\ WF_vars(ImportIndex) /\ WF_vars(ImportPage)

----------------------------------------------------------------------------
(* Properties of the event processor *)

IsIntent == msg.topic = "nfts"
IsSigned == msg.topic = "treasury"
Status == TransactionStatusFromI32(msg.res.status)

SigningRequestedAt(i) == out[i].event.event = "SigningRequested"
SubmittedAt(i) == out[i].event.event = "Submitted"
FailedAt(i, reason) == out[i].event.event = "Failed" /\ out[i].event.reason = reason

\* The kinds whose intent handler parses the key id, and those that write a row.
KeyIdKinds == EventKind \ {"TransferAsset", "SwitchMintCollection"}
PersistingKinds == EventKind \ (UpdateKinds \cup {"TransferAsset", "SwitchMintCollection",
                                                   "RetryUpdateCollectionMint"})

AssemblyMustFail ==
    \/ ~env.rpc_up
    \/ env.db = "down"
    \/ ~ParsePubkeyOk(msg.payload.owner_address)
    \/ msg.key.id = BadUuid /\ msg.kind \in KeyIdKinds
    \/ env.db = "readonly" /\ msg.kind \in PersistingKinds

\* C2: when assembly fails, for whatever reason, the processor emits
\* KFailed(Assemble) and no KSigningRequested.
C2_AssemblyFailure ==
    (IsIntent /\ (AssemblyMustFail \/ trace.asm = "err")) =>
        /\ trace.asm = "err"
        /\ trace.err \in {"Solana", "InvalidUuid", "RecordNotFound", "DbError"}
        /\ \E i \in 1..Len(out) : FailedAt(i, "Assemble") /\ out[i].event.kind = msg.kind
        /\ \A i \in 1..Len(out) : ~SigningRequestedAt(i)

\* a database error while persisting the record of a mint
C2_Witness ==
    /\ IsIntent
    /\ msg.kind = "MintOpenDrop"
    /\ env.db = "readonly"
    /\ env.rpc_up
    /\ trace.err = "DbError"
    /\ Len(out) = 1
    /\ FailedAt(1, "Assemble")

\* C3 (as claimed): a signed message with status Failed or Ok ends with exactly
\* one outbound event, KSubmitted or KFailed, with the inbound key, and with
\* KSubmitted once send_transaction succeeded.
C3_NoHalfState ==
    (IsSigned /\ Status \in {Some("Ok"), Some("Failed")}) =>
        /\ Len(out) = 1
        /\ out[1].key = msg.key
        /\ out[1].event.kind = msg.kind
        /\ SubmittedAt(1) \/ out[1].event.event = "Failed"
        /\ trace.submit = "ok" => SubmittedAt(1)

\* C4 (as claimed): send_transaction is called only for a signed message whose
\* status is Ok.
C4_SubmitOnlyWhenOk ==
    trace.sends > 0 => (IsSigned /\ Status = Some("Ok"))

\* C5: a signed message with status Failed yields exactly KFailed(Sign) with
\* the inbound key, no KSubmitted, no submission, and leaves every row as it was.
C5_SignFailure ==
    [][(msg'.topic = "treasury" /\ TransactionStatusFromI32(msg'.res.status) = Some("Failed")) =>
          /\ out' = <<Send(into_failure(msg'.kind, "Sign"), msg'.key)>>
          /\ trace'.sends = 0
          /\ UNCHANGED <<collections, collection_mints, compression_leafs, update_revisions>>
      ]_vars

C5_Witness ==
    /\ IsSigned
    /\ Status = Some("Failed")
    /\ msg.kind = "MintToCollection"
    /\ msg.key.id \in DOMAIN compression_leafs
    /\ Len(out) = 1
    /\ FailedAt(1, "Sign")

\* The signed result cannot be submitted: a signature or the message does not
\* parse, or the RPC node rejects the transaction.
SubmissionMustFail ==
    \/ \E i \in 1..Len(msg.res.signed_message_signatures) :
          ~ParseSignatureOk(msg.res.signed_message_signatures[i])
    \/ ~IsSome(msg.res.serialized_message)
    \/ (IsSome(msg.res.serialized_message) /\ ~DeserializeOk(Unwrap(msg.res.serialized_message)))
    \/ ~env.rpc_up

\* C6: send_transaction is called at most once for a signed message, and a
\* submission that fails yields KFailed(Submit) and no KSubmitted.
C6_SubmitOnce ==
    IsSigned =>
        /\ trace.sends <= 1
        /\ (Status \in {Some("Ok"), Some("Pending")} /\ (SubmissionMustFail \/ trace.submit = "err")) =>
              out = <<Send(into_failure(msg.kind, "Submit"), msg.key)>>

\* send_transaction was called once and failed
C6_Witness ==
    /\ IsSigned
    /\ Status = Some("Ok")
    /\ ~env.rpc_up
    /\ trace.sends = 1
    /\ Len(out) = 1
    /\ FailedAt(1, "Submit")

\* The kinds whose success event carries a signature only.
SignatureOnlyKinds ==
    UpdateKinds \cup {"UpdateCollectionMint", "RetryUpdateCollectionMint",
                      "SwitchMintCollection", "TransferAsset"}
MintKinds == MintToKinds \cup RetryMintToKinds \cup {"MintEditionDrop", "RetryMintEditionDrop"}

\* C7: a KSubmitted event carries the signature the RPC node returned; for a
\* create or retry-create its address is the mint of the Collection whose id
\* is the key id; for an uncompressed mint or retry-mint it is the mint of the
\* CollectionMint; for the update, switch and transfer kinds it carries no
\* address and no row was read.
C7_SubmittedContents ==
    \A i \in 1..Len(out) :
        SubmittedAt(i) =>
            /\ IsSigned
            /\ out[i].event.kind = msg.kind
            /\ out[i].event.signature = trace.sig
            /\ trace.sig = Some(msg.res.signed_message_signatures[1])
            /\ msg.kind \in CreateKinds \cup RetryCreateKinds =>
                  /\ msg.key.id \in DOMAIN collections
                  /\ out[i].event.address = Some(collections[msg.key.id].mint)
            /\ (msg.kind \in MintKinds /\ msg.key.id \notin DOMAIN compression_leafs) =>
                  /\ msg.key.id \in DOMAIN collection_mints
                  /\ out[i].event.address = Some(collection_mints[msg.key.id].mint)
            /\ msg.kind \in SignatureOnlyKinds =>
                  /\ out[i].event.address = None
                  /\ trace.reads = {}

\* a submitted create, answered with the mint of the collection
C7_Witness ==
    /\ IsSigned
    /\ msg.kind = "CreateCollection"
    /\ trace.submit = "ok"
    /\ Len(out) = 1
    /\ SubmittedAt(1)
    /\ out[1].event.address = Some(collections[msg.key.id].mint)

\* The confirmed transaction carries a change log at instruction 3 of group 0.
HasChangeLog(response) ==
    /\ response.rpc_ok
    /\ response.meta
    /\ IsSome(response.inner_instructions)
    /\ Len(Unwrap(response.inner_instructions)) >= 1
    /\ Len(Unwrap(response.inner_instructions)[1]) >= 4
    /\ Unwrap(response.inner_instructions)[1][4].form = "compiled"
    /\ Unwrap(response.inner_instructions)[1][4].data = "changelog"
ChangeLogIndex(response) == Unwrap(response.inner_instructions)[1][4].index

\* Group 0 of the confirmed transaction has fewer than 4 instructions.
FewerThanFour(response) ==
    /\ response.rpc_ok
    /\ response.meta
    /\ IsSome(response.inner_instructions)
    /\ Len(Unwrap(response.inner_instructions)) >= 1
    /\ Len(Unwrap(response.inner_instructions)[1]) < 4

\* A signed MintToCollection with status Ok, for a compression leaf, was
\* submitted while the database was up.
CompressedMintSubmitted ==
    /\ IsSigned
    /\ Status = Some("Ok")
    /\ msg.kind = "MintToCollection"
    /\ msg.key.id \in DOMAIN compression_leafs
    /\ trace.submit = "ok"
    /\ env.db = "up"

\* C8 (as claimed): after a compressed MintToCollection whose submission
\* succeeded, the leaf row has asset_id = Some(get_asset_id(merkle_tree, nonce)).
C8_AssetIdAfterSubmit ==
    CompressedMintSubmitted =>
        \E n \in Nonces :
            compression_leafs[msg.key.id].asset_id =
                Some(GetAssetId(compression_leafs[msg.key.id].merkle_tree, n))

\* C8 (amended): a compressed MintToCollection whose submission succeeds, whose
\* confirmed transaction yields a nonce and whose row update succeeds leaves
\* the leaf row with asset_id = Some(get_asset_id(merkle_tree, nonce)); a leaf
\* row is created with a null asset_id, and its asset_id changes in no other step.
C8_AssetIdSet ==
    [][LET Set(id) == /\ msg'.topic = "treasury"
                      /\ msg'.kind = "MintToCollection"
                      /\ msg'.key.id = id
                      /\ id \in DOMAIN compression_leafs
                      /\ trace'.submit = "ok"
                      /\ HasChangeLog(env'.confirmed)
                      /\ env'.db = "up"
       IN  \A id \in DOMAIN compression_leafs' :
              /\ id \notin DOMAIN compression_leafs => compression_leafs'[id].asset_id = None
              /\ (id \in DOMAIN compression_leafs /\ Set(id)) =>
                    compression_leafs'[id].asset_id =
                        Some(GetAssetId(compression_leafs[id].merkle_tree,
                                        ChangeLogIndex(env'.confirmed)))
              /\ (id \in DOMAIN compression_leafs /\ ~Set(id)) =>
                    compression_leafs'[id].asset_id = compression_leafs[id].asset_id
      ]_vars

\* the asset id of a leaf was set from a nonzero nonce
C8_Witness ==
    /\ CompressedMintSubmitted
    /\ HasChangeLog(env.confirmed)
    /\ ChangeLogIndex(env.confirmed) = 5
    /\ trace.extracted
    /\ compression_leafs[msg.key.id].asset_id = Some(GetAssetId(MerkleTree, 5))

\* C9 (as claimed): a signed MintToCollection or MintOpenDrop for a compressed
\* mint whose submission succeeds yields KSubmitted with address = asset_id.
C9_CompressedAddress ==
    (/\ IsSigned
     /\ Status = Some("Ok")
     /\ msg.kind \in MintToKinds
     /\ msg.key.id \in DOMAIN compression_leafs
     /\ msg.key.id \notin DOMAIN collection_mints
     /\ trace.submit = "ok"
     /\ HasChangeLog(env.confirmed)
     /\ env.db = "up") =>
        /\ Len(out) = 1
        /\ SubmittedAt(1)
        /\ out[1].event.address =
              Some(GetAssetId(MerkleTree, ChangeLogIndex(env.confirmed)))

\* C10 (as claimed): when group 0 of the confirmed transaction of a compressed
\* mint has fewer than 4 instructions, extraction fails with NoInnerInstruction,
\* KSubmitted is still emitted, and the asset_id of the leaf stays as it was.
C10_FewerThanFour ==
    [][(/\ msg'.topic = "treasury"
        /\ TransactionStatusFromI32(msg'.res.status) = Some("Ok")
        /\ msg'.kind = "MintToCollection"
        /\ msg'.key.id \in DOMAIN compression_leafs
        /\ trace'.submit = "ok"
        /\ env'.db = "up"
        /\ FewerThanFour(env'.confirmed)) =>
          /\ trace'.asset_err = "NoInnerInstruction"
          /\ compression_leafs' = compression_leafs
          /\ \E i \in 1..Len(out') : out'[i].event.event = "Submitted"
      ]_vars

\* The assembler the dispatch table gives for an intent kind and the
\* compressed flag of its payload (TransferAsset is decided by the stored row).
ExpectedBackend(kind, compressed) ==
    CASE kind \in CreateKinds \cup RetryCreateKinds -> {"UncompressedRef::create"}
      [] kind \in {"MintEditionDrop", "RetryMintEditionDrop"} -> {"EditionRef::mint"}
      [] kind \in MintToKinds ->
            IF compressed THEN {"CompressedRef::mint"} ELSE {"UncompressedRef::mint"}
      [] kind \in RetryMintToKinds -> {"UncompressedRef::mint"}
      [] kind \in UpdateKinds -> {"UncompressedRef::update"}
      [] kind = "UpdateCollectionMint" -> {"UncompressedRef::update_mint"}
      [] kind = "RetryUpdateCollectionMint" -> {"UncompressedRef::retry_update_mint"}
      [] kind = "SwitchMintCollection" -> {"UncompressedRef::switch"}
      [] kind = "TransferAsset" -> {"UncompressedRef::transfer", "CompressedRef::transfer"}

\* C11: an intent calls at most one assembler, exactly one when it ends in a
\* signing request, and the assembler is the one the dispatch table gives for
\* the intent kind and the compressed flag of the payload.
C11_OneAssembler ==
    IsIntent =>
        /\ Len(trace.calls) <= 1
        /\ \A i \in 1..Len(trace.calls) :
              trace.calls[i] \in ExpectedBackend(msg.kind, msg.payload.compressed)
        /\ trace.asm = "ok" => Len(trace.calls) = 1

\* a retried mint with the compressed flag set, assembled by the uncompressed backend
C11_Witness ==
    /\ IsIntent
    /\ msg.kind = "RetryMintToCollection"
    /\ msg.payload.compressed
    /\ trace.asm = "ok"
    /\ trace.calls = <<"UncompressedRef::mint">>
    /\ SigningRequestedAt(1)

\* C12: a TransferAsset intent whose collection_mint_id has a CollectionMint
\* row is assembled by the uncompressed transfer backend; one that has only
\* a CompressionLeaf row by the compressed transfer backend; one that has
\* neither fails with RecordNotFound and yields TransferAssetFailed(Assemble).
C12_TransferDispatch ==
    (IsIntent /\ msg.kind = "TransferAsset" /\ env.db # "down") =>
        LET id == msg.payload.mint_id
        IN  /\ id \in DOMAIN collection_mints =>
                  trace.calls = <<"UncompressedRef::transfer">>
            /\ (id \notin DOMAIN collection_mints /\ id \in DOMAIN compression_leafs) =>
                  trace.calls = <<"CompressedRef::transfer">>
            /\ (id \notin DOMAIN collection_mints /\ id \notin DOMAIN compression_leafs) =>
                  /\ trace.calls = << >>
                  /\ trace.err = "RecordNotFound"
                  /\ out = <<Send(into_failure("TransferAsset", "Assemble"), msg.key)>>
            /\ trace.asm = "ok" =>
                  out[1].event.tx.serialized_message.op =
                      IF id \in DOMAIN collection_mints THEN "transfer" ELSE "transfer_compressed"

\* a compression leaf with its asset id, transferred by the compressed backend
C12_Witness ==
    /\ IsIntent
    /\ msg.kind = "TransferAsset"
    /\ msg.payload.mint_id \notin DOMAIN collection_mints
    /\ msg.payload.mint_id \in DOMAIN compression_leafs
    /\ trace.asm = "ok"
    /\ trace.calls = <<"CompressedRef::transfer">>
    /\ SigningRequestedAt(1)

\* The builders whose signer lists C13 speaks of.
SignerListBuilders ==
    {"UncompressedRef::create", "EditionRef::mint", "UncompressedRef::mint",
     "CompressedRef::mint", "UncompressedRef::update", "UncompressedRef::update_mint",
     "UncompressedRef::retry_update_mint", "UncompressedRef::transfer",
     "CompressedRef::transfer"}

\* Entry i of the signer list belongs to the required signer at index i of
\* the message: it is that signer's public key or that signer's signature.
SlotsMatch(tx) ==
    LET m == tx.serialized_message
        s == tx.signatures_or_signers_public_keys
    IN  /\ Len(s) = m.num_required_signatures
        /\ \A i \in 1..Len(s) :
              /\ i <= Len(m.account_keys)
              /\ s[i] = m.account_keys[i] \/ s[i] = Sign(m.account_keys[i], m)

\* C13 (as claimed): for every builder and payload, also when the owner is
\* the treasury wallet, signatures_or_signers_public_keys has one entry per
\* required signer of the message and entry i belongs to required signer i.
C13_SignerSlots ==
    (built.ok /\ built.backend \in SignerListBuilders) => SlotsMatch(built.tx)

\* C14 (as claimed): after any sequence of intents no id has a row both in
\* collection_mints and in compression_leafs.
C14_OneRowPerMintId ==
    DOMAIN collection_mints \cap DOMAIN compression_leafs = {}

\* The kinds whose handler stores a row before the signing request.
RowKinds == CreateKinds \cup RetryCreateKinds \cup MintKinds \cup {"UpdateCollectionMint"}

\* The builder call of the intent just handled, made again on the stored
\* rows: a builder that generates a keypair took the key before nextKey.
Rebuilt ==
    LET p == msg.payload
        id == msg.key.id
    IN  CASE msg.kind \in CreateKinds \cup RetryCreateKinds ->
                Create(p, nextKey - 1, env)
          [] msg.kind \in MintToKinds /\ p.compressed ->
                MintCompressed(collections[p.collection_id], p, env)
          [] msg.kind \in MintToKinds /\ ~p.compressed ->
                MintUncompressed(collections[p.collection_id], p, nextKey - 1, env)
          [] msg.kind = "MintEditionDrop" ->
                MintEdition(collections[p.collection_id], p, nextKey - 1, env)
          [] msg.kind \in RetryMintToKinds ->
                MintUncompressed(collections[collection_mints[id].collection_id], p, nextKey - 1, env)
          [] msg.kind = "RetryMintEditionDrop" ->
                MintEdition(collections[collection_mints[id].collection_id], p, nextKey - 1, env)
          [] msg.kind = "UpdateCollectionMint" ->
                UpdateMint(collections[p.collection_id], collection_mints[p.mint_id], p, env)

\* The row of the key id holds the addresses of the bag.
RowHolds(a) ==
    LET p == msg.payload
        id == msg.key.id
    IN  CASE msg.kind \in CreateKinds \cup RetryCreateKinds ->
                /\ id \in DOMAIN collections
                /\ collections[id].mint = a.mint
                /\ collections[id].metadata = a.metadata
                /\ collections[id].master_edition = a.master_edition
                /\ collections[id].associated_token_account = a.associated_token_account
                /\ collections[id].owner = a.owner
                /\ collections[id].update_authority = a.update_authority
          [] msg.kind \in MintToKinds /\ p.compressed ->
                /\ id \in DOMAIN compression_leafs
                /\ compression_leafs[id].merkle_tree = a.merkle_tree
                /\ compression_leafs[id].tree_authority = a.tree_authority
                /\ compression_leafs[id].tree_delegate = a.tree_delegate
                /\ compression_leafs[id].leaf_owner = a.leaf_owner
          [] msg.kind = "UpdateCollectionMint" ->
                /\ id \in DOMAIN update_revisions
                /\ update_revisions[id].payer = a.payer
                /\ update_revisions[id].metadata = a.metadata
                /\ update_revisions[id].update_authority = a.update_authority
          [] OTHER ->
                /\ id \in DOMAIN collection_mints
                /\ collection_mints[id].mint = a.mint
                /\ collection_mints[id].owner = a.recipient
                /\ collection_mints[id].associated_token_account = a.associated_token_account

\* C15: when a signing request is emitted for a create, a mint, a retry of
\* those or an update of a collection mint, the row of the key id is stored
\* and its address columns are the addresses of the bag the builder returned
\* with the transaction the event carries.
C15_StoredBeforeSigning ==
    (IsIntent /\ msg.kind \in RowKinds /\ Len(out) >= 1 /\ SigningRequestedAt(1)) =>
        /\ Rebuilt.ok
        /\ out[1].event.tx = Rebuilt.tx
        /\ RowHolds(Rebuilt.addresses)

\* a retried edition mint whose signing request goes out with the row rewritten
C15_Witness ==
    /\ IsIntent
    /\ msg.kind = "RetryMintEditionDrop"
    /\ Len(out) = 1
    /\ SigningRequestedAt(1)
    /\ collection_mints[msg.key.id].mint = Rebuilt.addresses.mint

\* C16 (as claimed): an intent delivered a second time, with the database and
\* the RPC node up both times, leaves the rows as the first delivery left
\* them and emits an event of the same outcome as the first.
C16_Idempotent ==
    [][(/\ msg.topic = "nfts"
        /\ msg' = msg
        /\ handled' = handled + 1
        /\ env.db = "up" /\ env.rpc_up
        /\ env'.db = "up" /\ env'.rpc_up)
       => /\ collections' = collections
          /\ collection_mints' = collection_mints
          /\ compression_leafs' = compression_leafs
          /\ update_revisions' = update_revisions
          /\ Len(out') = Len(out)
          /\ \A i \in 1..Len(out) : out'[i].event.event = out[i].event.event]_vars

\* A retried create that got its signing request is delivered again and gets
\* a signing request again.
RetryCreateRepeated ==
    /\ msg.topic = "nfts"
    /\ msg.kind \in RetryCreateKinds
    /\ msg' = msg
    /\ handled' = handled + 1
    /\ Len(out) = 1 /\ SigningRequestedAt(1)
    /\ Len(out') = 1 /\ out'[1].event.event = "SigningRequested"

C18_RetryUpdateMint ==
    (/\ IsIntent
     /\ msg.kind = "RetryUpdateCollectionMint"
     /\ ParseUuidOk(msg.key.id)
     /\ env.db # "down") =>
        IF msg.key.id \in DOMAIN update_revisions
        THEN env.rpc_up =>
                LET revision == update_revisions[msg.key.id]
                    tx == out[1].event.tx
                IN  /\ Len(out) = 1
                    /\ SigningRequestedAt(1)
                    /\ out[1].event.kind = "RetryUpdateCollectionMint"
                    /\ tx.serialized_message =
                          [revision.serialized_message EXCEPT !.recent_blockhash = env.blockhash]
                    /\ tx.signatures_or_signers_public_keys =
                          <<revision.payer, revision.update_authority>>
        ELSE /\ out = event_failed("RetryUpdateCollectionMint", msg.key, "Assemble")
             /\ Len(out) = 1
             /\ trace.err = "RecordNotFound"

\* a retry whose message differs from the stored one by the blockhash only
C18_Witness ==
    /\ IsIntent
    /\ msg.kind = "RetryUpdateCollectionMint"
    /\ msg.key.id \in DOMAIN update_revisions
    /\ Len(out) = 1
    /\ SigningRequestedAt(1)
    /\ out[1].event.tx.serialized_message.recent_blockhash
          # update_revisions[msg.key.id].serialized_message.recent_blockhash
    /\ out[1].event.tx.serialized_message.account_keys
          = update_revisions[msg.key.id].serialized_message.account_keys

\* C19 (as claimed): when the indexer emits UpdateMintOwner, the owner of the
\* CollectionMint row of the event's key id is the recipient of the event,
\* also when tasks of several transactions of the mint are in progress.
C19_OwnerAtEmission ==
    [][produced' # produced =>
        LET e == produced'[Len(produced')]
        IN  collection_mints'[e.key.id].owner = e.event.recipient]_vars

\* Every transaction the feed reported has been dispatched and its task has
\* returned Ok.
AllProcessed ==
    /\ IsSome(geyser.owner)
    /\ DOMAIN dashmap = {}
    /\ Len(tasks) = geyser.received
    /\ \A i \in 1..Len(tasks) : tasks[i].pc = "done"

\* C20 (as claimed): the transactions take effect in the order received, so
\* once all have been processed the events are in the order of the
\* transactions and the row of the mint is owned by its owner on the chain.
C20_SlotOrder ==
    AllProcessed =>
        /\ \A i, j \in 1..Len(produced) :
              i < j => produced[i].event.tx_signature.n < produced[j].event.tx_signature.n
        /\ \A id \in DOMAIN collection_mints :
              collection_mints[id].owner = Unwrap(geyser.owner)

\* C21 (as claimed): for one transaction signature and one source token
\* account (the sender's account of the mint) the indexer emits at most one
\* UpdateMintOwner, also when the transaction repeats the transfer and when
\* the feed reports the transaction again.
C21_AtMostOne ==
    \A i, j \in 1..Len(produced) :
        (/\ produced[i].event.tx_signature = produced[j].event.tx_signature
         /\ produced[i].event.sender = produced[j].event.sender
         /\ produced[i].event.mint_address = produced[j].event.mint_address) => i = j

\* C22: a transaction the feed reports joins the end of the bucket of its
\* slot and no task is spawned for it; tasks are spawned only when the slot
\* is reported, and then the bucket of that slot leaves the map and one task
\* per entry of the bucket is spawned, in the order of the bucket; when the
\* slot has no bucket no task is spawned.
C22_SlotReassembly ==
    [][/\ geyser'.received # geyser.received =>
            /\ tasks' = tasks
            /\ \E sl \in DOMAIN dashmap' :
                  /\ dashmap'[sl][Len(dashmap'[sl])].slot = sl
                  /\ dashmap' = Put(dashmap, sl,
                                    Append(Bucket(sl), dashmap'[sl][Len(dashmap'[sl])]))
       /\ Len(tasks') # Len(tasks) => geyser'.slot # geyser.slot
       /\ geyser'.slot # geyser.slot =>
            /\ geyser.slot \notin DOMAIN dashmap'
            /\ \A sl \in DOMAIN dashmap \ {geyser.slot} :
                  sl \in DOMAIN dashmap' /\ dashmap'[sl] = dashmap[sl]
            /\ Len(tasks') = Len(tasks) + Len(Bucket(geyser.slot))
            /\ \A i \in 1..Len(tasks) : tasks'[i] = tasks[i]
            /\ \A i \in 1..Len(Bucket(geyser.slot)) :
                  /\ tasks'[Len(tasks) + i].tx = Bucket(geyser.slot)[i]
                  /\ tasks'[Len(tasks) + i].pc = "find"
                  /\ tasks'[Len(tasks) + i].ip = 1]_vars

\* two transactions of the first slot dispatched by its report, and the
\* second slot reported without a bucket
C22_Witness ==
    /\ IsSome(geyser.owner)
    /\ geyser.slot = 3
    /\ DOMAIN dashmap = {}
    /\ Len(tasks) = 2
    /\ tasks[1].tx.slot = 1
    /\ tasks[2].tx.slot = 1
    /\ tasks[1].tx.signature # tasks[2].tx.signature

\* A process_transaction that has been spawned and has not returned
InFlight(t) == t.pc \notin {"done", "failed"}

\* C26 (as claimed): at any time the number of process_transaction tasks in
\* flight is at most the configured parallelism.
C26_BoundedPool ==
    Cardinality({i \in 1..Len(tasks) : InFlight(tasks[i])}) <= Parallelism

\* C29: a task takes a row from find_by_ata only for a Transfer or a
\* TransferChecked of amount 1 and only a row whose associated token account
\* is the account at index 0 of the instruction; every change of a row and
\* every event comes from a task standing at such an instruction with such a
\* row, and carries the account at index 1 (Transfer) or 2 (TransferChecked)
\* as the destination.  Any other instruction, amount or source changes no
\* row and emits nothing.
C29_OnlyUnitTransfers ==
    [][/\ \A i \in 1..Len(tasks) :
            (tasks[i].pc = "find" /\ tasks'[i].pc = "fetch") =>
                LET ins == tasks'[i].tx.instructions[tasks'[i].ip]
                IN  /\ ins.kind \in {"Transfer", "TransferChecked"}
                    /\ ins.amount = 1
                    /\ \E id \in DOMAIN collection_mints :
                          /\ collection_mints[id] = Unwrap(tasks'[i].mint)
                          /\ collection_mints[id].associated_token_account = ins.accounts[1]
       /\ (collection_mints' # collection_mints \/ produced' # produced) =>
            \E i \in 1..Len(tasks) :
                LET t == tasks[i]
                    ins == t.tx.instructions[t.ip]
                    dest == IF ins.kind = "Transfer" THEN ins.accounts[2] ELSE ins.accounts[3]
                IN  /\ tasks'[i] # t
                    /\ ins.kind \in {"Transfer", "TransferChecked"}
                    /\ ins.amount = 1
                    /\ IsSome(t.mint)
                    /\ Unwrap(t.mint).associated_token_account = ins.accounts[1]
                    /\ dest.t = "ata"
                    /\ collection_mints' # collection_mints =>
                          collection_mints' =
                             [collection_mints EXCEPT
                                 ![Unwrap(t.mint).id].owner = Addr("wallet", dest.o, 0),
                                 ![Unwrap(t.mint).id].associated_token_account = dest]
                    /\ produced' # produced =>
                          /\ Len(produced') = Len(produced) + 1
                          /\ produced'[Len(produced')].event.recipient = Addr("wallet", dest.o, 0)
                          /\ produced'[Len(produced')].event.sender = Unwrap(t.mint).owner
                          /\ produced'[Len(produced')].event.tx_signature = t.tx.signature]_vars

\* a TransferChecked of the mint has been reported as an ownership change and
\* the task of a transfer of amount 0 from the mint's account has returned
C29_Witness ==
    \E i, j \in 1..Len(tasks) :
        /\ tasks[i].tx.instructions[1].kind = "TransferChecked"
        /\ \E k \in 1..Len(produced) :
              /\ produced[k].event.tx_signature = tasks[i].tx.signature
              /\ produced[k].event.recipient = Addr("wallet", tasks[i].tx.instructions[1].accounts[3].o, 0)
        /\ tasks[j].tx.instructions[1].amount = 0
        /\ tasks[j].tx.instructions[1].accounts[1] \in
              {GetAssociatedTokenAddress(h, Unwrap(geyser.mint)) : h \in Holders}
        /\ tasks[j].pc = "done"

\* C30 (as claimed): once the task of a transaction has returned Ok, every
\* Transfer of amount 1 in it whose source is the managed mint's token
\* account has been reported with the holder of that account as the sender,
\* whatever instructions precede it.  Stated for the first transaction the
\* feed reports, whose task runs alone.
C30_EveryTransferReported ==
    \A i \in 1..Len(tasks) :
        (geyser.received = 1 /\ tasks[i].pc = "done") =>
            \A k \in 1..Len(tasks[i].tx.instructions) :
                LET ins == tasks[i].tx.instructions[k]
                IN  (/\ ins.kind \in {"Transfer", "TransferChecked"}
                     /\ ins.amount = 1
                     /\ ins.accounts[1].t = "ata"
                     /\ Addr("key", ins.accounts[1].n, 0) = Unwrap(geyser.mint)) =>
                        \E e \in 1..Len(produced) :
                            /\ produced[e].event.tx_signature = tasks[i].tx.signature
                            /\ produced[e].event.sender = Addr("wallet", ins.accounts[1].o, 0)

\* C27 (as claimed): whatever the builder, when get_latest_blockhash fails
\* fewer times in a row than the retry limit and then answers, the builder
\* does not fail with the error of the read.
C27_BlockhashRetried ==
    (/\ built.backend # "none"
     /\ env.rpc_up
     /\ env.failures <= MaxTimes) => ~built.client_error

\* The accounts that must sign a message
SwitchSigners(m) == {m.account_keys[i] : i \in 1..m.num_required_signatures}

\* C28 (as claimed): every signer the message of SwitchMintCollection
\* requires (the payer and the authorities of the old and of the new
\* collection) has an entry in signatures_or_signers_public_keys, also when
\* the two collections have different owners.
C28_SwitchSignerSlots ==
    (built.ok /\ built.backend = "UncompressedRef::switch") =>
        \A signer \in SwitchSigners(built.tx.serialized_message) :
            \E i \in 1..Len(built.tx.signatures_or_signers_public_keys) :
                built.tx.signatures_or_signers_public_keys[i] = signer

\* The step handled an intent (the first delivery of a message).
HandledIntent == handled' = handled + 1 /\ msg'.topic = "nfts"

\* C33: a RetryMintToCollection or RetryMintOpenDrop whose id has a
\* compression leaf and no collection_mints row ends in the Failed event of
\* its kind with reason Assemble, never in a signing request, and leaves
\* compression_leafs and collection_mints as they were.
C33_CompressedRetryFails ==
    [][(/\ HandledIntent
        /\ msg'.kind \in RetryMintToKinds
        /\ msg'.key.id \in DOMAIN compression_leafs
        /\ msg'.key.id \notin DOMAIN collection_mints) =>
            /\ Len(out') = 1
            /\ out'[1].event.event = "Failed"
            /\ out'[1].event.kind = msg'.kind
            /\ out'[1].event.reason = "Assemble"
            /\ out'[1].key = msg'.key
            /\ compression_leafs' = compression_leafs
            /\ collection_mints' = collection_mints]_vars

\* a retry of a compressed mint, with the database and the RPC node up, has
\* failed with RecordNotFound
C33_Witness ==
    /\ IsIntent
    /\ msg.kind \in RetryMintToKinds
    /\ msg.key.id \in DOMAIN compression_leafs
    /\ msg.key.id \notin DOMAIN collection_mints
    /\ env.rpc_up /\ env.db = "up"
    /\ Len(out) = 1
    /\ FailedAt(1, "Assemble")
    /\ trace.err = "RecordNotFound"

\* The four tables the event processor writes
Tables == <<collections, collection_mints, compression_leafs, update_revisions>>

\* C36: an intent that ends in the Failed event of its kind with reason
\* Assemble has created and modified no row of collections, collection_mints,
\* compression_leafs or update_revisions.
C36_AssembleErrorWritesNothing ==
    [][(/\ HandledIntent
        /\ \E i \in 1..Len(out') :
              out'[i].event.event = "Failed" /\ out'[i].event.reason = "Assemble")
            => Tables' = Tables]_vars

\* the builder of a metadata update has failed, after both rows were found
\* and before the revision would have been inserted
C36_Witness ==
    /\ IsIntent
    /\ msg.kind = "UpdateCollectionMint"
    /\ msg.payload.mint_id \in DOMAIN collection_mints
    /\ msg.payload.collection_id \in DOMAIN collections
    /\ msg.key.id \notin DOMAIN update_revisions
    /\ env.db = "up"
    /\ trace.err = "Solana"
    /\ Len(out) = 1
    /\ FailedAt(1, "Assemble")

\* C37: a TransferAsset intent whose collection_mint_id names a compression
\* leaf (and no collection_mints row) with a null asset_id fails at assembly
\* before the asset API is called: the only event is TransferAssetFailed
\* with reason Assemble, and no signing request is sent.
C37_LeafWithoutAssetId ==
    [][(/\ HandledIntent
        /\ msg'.kind = "TransferAsset"
        /\ env'.db # "down"
        /\ msg'.payload.mint_id \notin DOMAIN collection_mints
        /\ msg'.payload.mint_id \in DOMAIN compression_leafs
        /\ ~IsSome(compression_leafs[msg'.payload.mint_id].asset_id)) =>
            /\ trace'.asset_api = << >>
            /\ Len(out') = 1
            /\ out'[1].event.event = "Failed"
            /\ out'[1].event.kind = "TransferAsset"
            /\ out'[1].event.reason = "Assemble"]_vars

\* the transfer of a leaf without asset id has failed in CompressedRef::transfer
\* with the RPC node and the database up and both addresses well formed
C37_Witness ==
    /\ IsIntent
    /\ msg.kind = "TransferAsset"
    /\ msg.payload.mint_id \notin DOMAIN collection_mints
    /\ msg.payload.mint_id \in DOMAIN compression_leafs
    /\ ~IsSome(compression_leafs[msg.payload.mint_id].asset_id)
    /\ ParsePubkeyOk(msg.payload.recipient_address)
    /\ ParsePubkeyOk(msg.payload.owner_address)
    /\ env.rpc_up /\ env.db = "up"
    /\ trace.calls = <<"CompressedRef::transfer">>
    /\ trace.err = "Solana"
    /\ trace.asset_api = << >>
    /\ Len(out) = 1
    /\ FailedAt(1, "Assemble")

\* The failure the claim gives for a response of get_transaction, "" when the
\* nonce can be read.
NonceFailure(response) ==
    LET inner == response.inner_instructions
        groups == Unwrap(inner)
        ins == groups[1][4]
    IN  IF ~response.meta THEN "NoTransactionMeta"
        ELSE IF ~IsSome(inner) THEN "NoInnerInstruction"
        ELSE IF Len(groups) = 0 THEN "NoInnerInstruction"
        ELSE IF Len(groups[1]) < 4 THEN "NoInnerInstruction"
        ELSE IF ins.form # "compiled" THEN "NoNonce"
        ELSE IF ins.data = "appdata" THEN "NoNonce"
        ELSE IF ins.data = "notbase58" THEN "Base58"
        ELSE IF ins.data = "notborsh" THEN "BorshDeserialize"
        ELSE ""

\* C32: nonce extraction reads instruction 3 of inner-instruction group 0 and
\* nothing else, and answers the index of its change log; without meta it
\* fails with NoTransactionMeta, without inner instructions, group 0 or a
\* fourth instruction with NoInnerInstruction, on a parsed instruction or
\* application data with NoNonce, on undecodable data with Base58 or
\* BorshDeserialize; whenever extraction fails the leaf rows stay as they were.
C32_NonceExtraction ==
    [][(/\ handled' = handled + 1
        /\ msg'.topic = "treasury"
        /\ TransactionStatusFromI32(msg'.res.status) = Some("Ok")
        /\ msg'.kind = "MintToCollection"
        /\ msg'.key.id \in DOMAIN compression_leafs
        /\ trace'.submit = "ok"
        /\ env'.db # "down") =>
            LET response == env'.confirmed
                leaf == compression_leafs[msg'.key.id]
            IN  /\ trace'.extracted
                /\ trace'.asset_err # "" =>
                      /\ trace'.err = "AssetId"
                      /\ compression_leafs' = compression_leafs
                /\ response.rpc_ok =>
                      /\ trace'.asset_err = NonceFailure(response)
                      /\ (NonceFailure(response) = "" /\ env'.db = "up") =>
                            compression_leafs'[msg'.key.id].asset_id =
                                Some(GetAssetId(leaf.merkle_tree,
                                                Unwrap(response.inner_instructions)[1][4].index))
      ]_vars

\* extraction has failed on a transaction whose group 0 has three
\* instructions and whose second group carries a change log
C32_Witness ==
    /\ CompressedMintSubmitted
    /\ env.confirmed.rpc_ok
    /\ IsSome(env.confirmed.inner_instructions)
    /\ Len(Unwrap(env.confirmed.inner_instructions)) = 2
    /\ trace.extracted
    /\ trace.err = "AssetId"
    /\ trace.asset_err = "NoInnerInstruction"
    /\ compression_leafs[msg.key.id].asset_id = None

\* The mint account of a create or mint message: the first signer after the
\* payer.
MintOf(message) == message.account_keys[2]

\* C35 (as claimed): the address of a Submitted event of a create or a mint is
\* the mint address of the transaction that was submitted, whatever was
\* handled for the same id between the signing request and its answer.
C35_SubmittedAddress ==
    \A i \in 1..Len(out) :
        (IsSigned /\ SubmittedAt(i) /\ msg.kind \in SigningKinds) =>
            out[i].event.address = Some(MintOf(Unwrap(msg.res.serialized_message)))

\* C34: a signed message whose status is none of the values of
\* TransactionStatus (0 Pending, 1 Ok, 2 Failed) makes process return
\* TransactionStatusNotFound from the status check of the treasury path:
\* send_transaction is not called, nothing is sent and no row changes.
C34_UnknownStatus ==
    [][(/\ handled' = handled + 1
        /\ msg'.topic = "treasury"
        /\ msg'.res.status \notin {0, 1, 2}) =>
            /\ trace'.result = "Err"
            /\ trace'.err = "TransactionStatusNotFound"
            /\ trace'.src = "TreasuryStatus"
            /\ trace'.sends = 0
            /\ trace'.submit = "none"
            /\ out' = << >>
            /\ collections' = collections
            /\ collection_mints' = collection_mints
            /\ compression_leafs' = compression_leafs
            /\ update_revisions' = update_revisions]_vars

\* a signed result with an unknown status for a mint whose id has rows
C34_Witness ==
    /\ IsSigned
    /\ msg.res.status \notin {0, 1, 2}
    /\ msg.key.id \in DOMAIN collections \cup DOMAIN collection_mints \cup DOMAIN compression_leafs
    /\ trace.err = "TransactionStatusNotFound"
    /\ out = << >>

----------------------------------------------------------------------------
(* Properties of the importer *)

\* The assets searchAssets has returned to the import that are not burned
LiveAssets == SelectSeq(importer.assets, LAMBDA a : a.owner # NoOwner)

EventsOf(mint) == {i \in 1..Len(out) : out[i].event.event = "ImportedExternalMint"
                                        /\ out[i].event.mint_address = mint}
\* The rows of a mint under the collection row of the import
RowsOf(mint) ==
    {id \in DOMAIN collection_mints :
        /\ collection_mints[id].mint = mint
        /\ collection_mints[id].collection_id = Unwrap(importer.collection)}

\* C23: when process_import has returned Ok, ImportedExternalCollection was
\* sent once and first; for every asset searchAssets returned that is not
\* burned there is one ImportedExternalMint and one collection_mints row,
\* whose collection_id is the id of the imported collection's row; for a
\* burned asset there is no event and no row; nothing else was sent, so that
\* a first page without items leaves ImportedExternalCollection alone.
C23_ImportEvents ==
    importer.pc = "done" =>
        /\ Len(out) = 1 + Len(LiveAssets)
        /\ out[1].event.event = "ImportedExternalCollection"
        /\ out[1].key.id = Unwrap(importer.collection)
        /\ Unwrap(importer.collection) \in DOMAIN collections
        /\ \A i \in 2..Len(out) : out[i].event.event = "ImportedExternalMint"
        /\ \A k \in 1..Len(importer.assets) :
              LET a == importer.assets[k]
              IN  IF a.owner = NoOwner
                  THEN EventsOf(a.id) = {} /\ RowsOf(a.id) = {}
                  ELSE /\ Cardinality(EventsOf(a.id)) = 1
                       /\ Cardinality(RowsOf(a.id)) = 1
                       /\ \A id \in RowsOf(a.id) : collection_mints[id].owner = a.owner
                       /\ \A i \in EventsOf(a.id) :
                             out[i].event.collection_id = Unwrap(importer.collection)
        /\ Cardinality({id \in DOMAIN collection_mints :
                           collection_mints[id].collection_id = Unwrap(importer.collection)})
              = Len(LiveAssets)
        /\ (importer.pages[1].total = 0 => Len(out) = 1)

\* an import over two pages that returned assets held and assets burned
C23_Witness ==
    /\ importer.pc = "done"
    /\ Len(importer.pages) = 2
    /\ Len(LiveAssets) >= 2
    /\ Len(LiveAssets) < Len(importer.assets)

\* C24: the pages are requested in the order 1, 2, 3, ...; a further page is
\* requested only after pages that reported total >= MAX_LIMIT, the loop has
\* ended as soon as a page reports total < MAX_LIMIT, and an import in
\* progress ends, with Ok or with an error.
C24_Pagination ==
    /\ [](LET pages == importer.pages
          IN  /\ \A i \in 1..Len(pages) : pages[i].page = i
              /\ \A i \in 1..(Len(pages) - 1) : pages[i].total >= MAX_LIMIT
              /\ importer.pc = "search" =>
                    /\ importer.page = Len(pages) + 1
                    /\ \A i \in 1..Len(pages) : pages[i].total >= MAX_LIMIT
              /\ importer.pc = "done" =>
                    /\ Len(pages) >= 1
                    /\ pages[Len(pages)].total < MAX_LIMIT)
    /\ (importer.pc \in {"index", "search"}) ~> (importer.pc \in {"done", "failed"})

\* an import that ended after a full page and a page short of MAX_LIMIT
C24_Witness ==
    /\ importer.pc = "done"
    /\ Len(importer.pages) = 2
    /\ importer.pages[1].total = MAX_LIMIT
    /\ importer.pages[2].total < MAX_LIMIT

\* C25: the importer removes no collection row but the one whose id is the
\* id of the key of the import that starts, and no collection_mints row but
\* those that refer to it; when the import goes on, that row and the rows
\* that refer to it are gone, and the new collection row is inserted only
\* afterwards, in a step where no row has the key's id.
C25_DeleteBeforeInsert ==
    [][/\ \A id \in DOMAIN collections \ DOMAIN collections' :
            handled' = handled + 1 /\ id = msg'.key.id
       /\ \A id \in DOMAIN collection_mints \ DOMAIN collection_mints' :
            handled' = handled + 1 /\ collection_mints[id].collection_id = msg'.key.id
       /\ (handled' = handled + 1 /\ importer'.pc = "index") =>
            /\ msg'.key.id \notin DOMAIN collections'
            /\ \A id \in DOMAIN collection_mints' :
                  collection_mints'[id].collection_id # msg'.key.id
            /\ DOMAIN collections' \subseteq DOMAIN collections
       /\ ~(DOMAIN collections' \subseteq DOMAIN collections) =>
            /\ importer.pc = "index"
            /\ msg.key.id \notin DOMAIN collections
            /\ DOMAIN collections \subseteq DOMAIN collections']_vars

\* the import of a key whose id had a row with a mint goes on after the
\* delete, while the row of an earlier import is still there
C25_Witness ==
    /\ importer.pc = "index"
    /\ msg.key.id = 1
    /\ 1 \notin DOMAIN collections
    /\ DOMAIN collections # {}
    /\ DOMAIN collection_mints = {}

\* C38 (as claimed): after the first import has failed, the collection row
\* and the mints that existed before it are still there, no collection row of
\* the import remains, and every ImportedExternalMint that was sent is for a
\* mint that has a row.
C38_FailedImportNoEffect ==
    (importer.pc = "failed" /\ handled = 1) =>
        /\ collections = StoredDb.collections
        /\ collection_mints = StoredDb.collection_mints
        /\ \A i \in 1..Len(out) :
              out[i].event.event = "ImportedExternalMint" =>
                  out[i].key.id \in DOMAIN collection_mints

\* C39 (as claimed): the collection row of an import has the id of the key of
\* the message, ImportedExternalCollection is sent under that key, and no two
\* collection rows have the same mint address.
C39_RowUnderKeyId ==
    /\ IsSome(importer.collection) =>
          /\ Unwrap(importer.collection) = msg.key.id
          /\ \A i \in 1..Len(out) :
                out[i].event.event = "ImportedExternalCollection" => out[i].key = msg.key
    /\ \A a, b \in DOMAIN collections :
          collections[a].mint = collections[b].mint => a = b

\* The Bubblegum transfers of a transaction whose asset id has a leaf row
MatchedTransfers(tx) ==
    {k \in 1..Len(tx.instructions) :
        /\ tx.instructions[k].kind = "BubblegumTransfer"
        /\ IsSome(FindByAssetId(compression_leafs,
                                GetAssetId(tx.instructions[k].accounts[5],
                                           tx.instructions[k].nonce)))}

\* C31 (as claimed): when the indexer is done with a transaction, for each of
\* its Bubblegum transfers whose asset id has a leaf row it has sent
\* UpdateMintOwner under the id of the leaf, with the asset id as
\* mint_address and the account at index 3 as recipient, and the row has the
\* leaf owner of the last such transfer.
C31_LeafOwnerFollows ==
    \A i \in 1..Len(tasks) :
        tasks[i].pc = "done" =>
            \A k \in MatchedTransfers(tasks[i].tx) :
                LET ins == tasks[i].tx.instructions[k]
                    asset_id == GetAssetId(ins.accounts[5], ins.nonce)
                    leaf == Unwrap(FindByAssetId(compression_leafs, asset_id))
                IN  /\ \E j \in 1..Len(produced) :
                          /\ produced[j].key.id = leaf.id
                          /\ produced[j].event.mint_address = asset_id
                          /\ produced[j].event.recipient = ins.accounts[4]
                          /\ produced[j].event.tx_signature = tasks[i].tx.signature
                    /\ \E t \in 1..Len(tasks) : \E n \in MatchedTransfers(tasks[t].tx) :
                          leaf.leaf_owner = tasks[t].tx.instructions[n].accounts[4]

====
